---- MODULE Spec2Model ----
(***************************************************************************)
(* Model of doozerlib/cli/release_gen_payload.py: the PayloadGenerator     *)
(* selection and consistency functions.                                    *)
(*                                                                         *)
(* Python objects are records, Optional values use the record None, dicts  *)
(* are functions whose DOMAIN is the key set, and strings that the code    *)
(* takes apart or puts together are sequences of tokens or codepoints.     *)
(***************************************************************************)
EXTENDS Integers, Sequences, FiniteSets, Bags, TLC

VARIABLES
    group_release_images,   \* assembly_inspector.get_group_release_images(), in iteration order
    tag_mapping,            \* arch -> outcome of get_group_payload_tag_mapping
    payload_entries,        \* arch -> outcome of find_payload_entries
    build_image_inspectors, \* argument of find_mismatched_siblings
    mismatched_siblings,    \* outcome of find_mismatched_siblings
    rhcos_builds,           \* argument of find_rhcos_build_rpm_inconsistencies
    rhcos_inconsistencies,  \* outcome of find_rhcos_build_rpm_inconsistencies
    inconsistencies,        \* the caller's list handed to _build_inconsistency_annotation
    annotation              \* outcome of _build_inconsistency_annotation

VARIABLES
    mirror_calls,           \* arguments of the calls of get_mirroring_destination
    mirror_destinations     \* their outcomes

VARIABLES
    pc,                     \* where release_gen_payload stands
    run_outcome,            \* how release_gen_payload ended
    assembly,               \* runtime.assembly and runtime.assembly_type
    options,                \* the command line options, each from when the code reads it
    arch_index,             \* position of the loop over runtime.arches
    rhcos_resolved,         \* arch -> outcome of assembly_inspector.get_rhcos_build
    assembly_wide_inconsistencies,
    report,                 \* the report dict
    src_dest,               \* arch -> the file src_dest.<arch>
    image_streams,          \* <<arch, private>> -> the file image_stream.<arch>[-priv].yaml
    preflight,              \* what the checks before the loop over the arches left
    nightly                 \* the state of check_nightlies_consistency

\* the state of the command release_gen_payload
run_vars == <<pc, run_outcome, assembly, options, arch_index, rhcos_resolved,
              assembly_wide_inconsistencies, report, src_dest, image_streams,
              preflight, nightly>>

mirror_vars == <<mirror_calls, mirror_destinations>>

vars == <<group_release_images, tag_mapping, payload_entries,
          build_image_inspectors, mismatched_siblings,
          rhcos_builds, rhcos_inconsistencies,
          inconsistencies, annotation, mirror_vars, run_vars>>

\* the value of a variable that a specification does not use
Idle == <<>>

\* the command and get_mirroring_destination are not part of the specification
OthersIdle ==
    /\ mirror_calls = Idle /\ mirror_destinations = Idle
    /\ pc = Idle /\ run_outcome = Idle /\ assembly = Idle /\ options = Idle
    /\ arch_index = Idle /\ rhcos_resolved = Idle /\ assembly_wide_inconsistencies = Idle
    /\ report = Idle /\ src_dest = Idle /\ image_streams = Idle
    /\ preflight = Idle /\ nightly = Idle

----------------------------------------------------------------------------
(* Bounds *)

MaxComponents == 2

MaxBuilds == 3

MaxRhcosBuilds == 2

MaxIssues == 7

MaxManifestTags == 2

----------------------------------------------------------------------------
(* Common values *)

\* Python's None
None == [none |-> TRUE]

\* outcome of a call that has not been made yet
NotCalled == [status |-> "notcalled"]

\* a call that returned value v
Returned(v) == [status |-> "returned", value |-> v]

\* a call that raised the exception e
Raised(e) == [status |-> "raised", error |-> e]

\* the empty dict
EmptyDict == <<>>

\* d[k] = v of a Python dict
DictSet(d, k, v) == [t \in (DOMAIN d) \cup {k} |-> IF t = k THEN v ELSE d[t]]

\* d.get(k, None)
DictGet(d, k) == IF k \in DOMAIN d THEN d[k] ELSE None

Range(s) == {s[i] : i \in DOMAIN s}

----------------------------------------------------------------------------
(* The assembly: components, builds, archives *)

\* brew architectures of the group (runtime.arches)
Arches == {"x86_64", "s390x"}

\* payload tag names that components of the group may claim
TagNames == {"pod", "a", "machine-os-content"}

\* doozerlib.util.brew_arch_for_go_arch: go names become brew names, brew names stay
brew_arch_for_go_arch(arch) ==
    CASE arch = "amd64" -> "x86_64"
      [] arch = "arm64" -> "aarch64"
      [] OTHER -> arch

\* the digest of the archive of component dgk for one arch: <algorithm>:<hex>
ArchiveDigest(dgk, brew_arch) == <<"sha256", ":", ToString(dgk) \o brew_arch>>

\* ArchiveImageInspector of the build of component c for brew_arch
ArchiveInspector(c, brew_arch) ==
    [image_meta      |-> [distgit_key |-> c.dgk],
     build_inspector |-> [nvr |-> c.dgk],
     arch            |-> brew_arch,
     digest          |-> ArchiveDigest(c.dgk, brew_arch)]

\* build_inspector.get_image_archive_inspector(brew_arch)
get_image_archive_inspector(c, brew_arch) ==
    IF brew_arch \in c.archive_arches THEN ArchiveInspector(c, brew_arch) ELSE None

\* One component of the group with what the assembly selected for it.
\* A component without a build has no archives.
ComponentChoices ==
    [has_build : {TRUE}, is_payload : {TRUE}, tag_name : TagNames, explicit : BOOLEAN,
     arches : SUBSET Arches, archive_arches : SUBSET Arches]
    \cup
    [has_build : {FALSE}, is_payload : {TRUE}, tag_name : TagNames, explicit : {FALSE},
     arches : {Arches}, archive_arches : {{}}]
    \cup
    [has_build : {TRUE}, is_payload : {FALSE}, tag_name : {"a"}, explicit : {FALSE},
     arches : {Arches}, archive_arches : {Arches}]

\* an image is meant for at least one architecture, and its build only carries archives
\* for architectures the image is meant for
WellFormedComponent(c) == c.arches # {} /\ c.archive_arches \subseteq c.arches

\* the group as a dict distgit_key -> build, the key being the position
Groups ==
    UNION {[1..n -> {c \in ComponentChoices : WellFormedComponent(c)}] : n \in 0..MaxComponents}

WithKeys(g) ==
    [i \in DOMAIN g |-> [dgk |-> i] @@ g[i]]

----------------------------------------------------------------------------
(* PayloadGenerator.get_group_payload_tag_mapping *)

\* TagMappingStep without the placeholder for a component not meant for the arch
TagMappingStepNoPlaceholder(members, c, arch) ==
    LET archive_inspector == get_image_archive_inspector(c, brew_arch_for_go_arch(arch))
    IN  IF ~c.has_build \/ ~c.is_payload \/ arch \notin c.arches THEN members
        ELSE IF c.tag_name \in DOMAIN members /\ ~c.explicit THEN members
        ELSE DictSet(members, c.tag_name, archive_inspector)

\* TagMappingStep without the precedence of an entry already found: the last one wins
TagMappingStepLastWins(members, c, arch) ==
    LET archive_inspector == get_image_archive_inspector(c, brew_arch_for_go_arch(arch))
    IN  IF ~c.has_build \/ ~c.is_payload THEN members
        ELSE IF arch \notin c.arches THEN DictSet(members, c.tag_name, None)
        ELSE DictSet(members, c.tag_name, archive_inspector)

\* TagMappingStep that leaves a placeholder for a component without a build
TagMappingStepPlaceholderForMissing(members, c, arch) ==
    LET brew_arch == brew_arch_for_go_arch(arch)
        archive_inspector == get_image_archive_inspector(c, brew_arch)
    IN  IF ~c.has_build THEN DictSet(members, c.tag_name, None)
        ELSE IF ~c.is_payload THEN members
        ELSE IF arch \notin c.arches THEN DictSet(members, c.tag_name, None)
        ELSE IF c.tag_name \in DOMAIN members /\ ~c.explicit THEN members
        ELSE IF archive_inspector = None THEN DictSet(members, c.tag_name, None)
        ELSE DictSet(members, c.tag_name, archive_inspector)

\* one pass of the loop body over component c, members being the map so far
TagMappingStep(members, c, arch) ==
    LET brew_arch == brew_arch_for_go_arch(arch)
        archive_inspector == get_image_archive_inspector(c, brew_arch)
    IN  IF ~c.has_build THEN members
        ELSE IF ~c.is_payload THEN members
        ELSE IF arch \notin c.arches THEN DictSet(members, c.tag_name, None)
        ELSE IF c.tag_name \in DOMAIN members /\ ~c.explicit THEN members
        ELSE IF archive_inspector = None THEN DictSet(members, c.tag_name, None)
        ELSE DictSet(members, c.tag_name, archive_inspector)

RECURSIVE TagMappingLoop(_, _, _)
\* the loop over the first n components
TagMappingLoop(g, n, arch) ==
    IF n = 0 THEN EmptyDict
    ELSE TagMappingStep(TagMappingLoop(g, n - 1, arch), g[n], arch)

get_group_payload_tag_mapping(g, arch) == TagMappingLoop(g, Len(g), arch)

----------------------------------------------------------------------------
(* PayloadGenerator.get_mirroring_destination, PayloadEntry, find_payload_entries *)

\* str.replace(old, new) on a token string
Replace(s, old, new) == [i \in DOMAIN s |-> IF s[i] = old THEN new ELSE s[i]]

\* get_mirroring_destination that tags with what follows the last ':' of the digest
get_mirroring_destinationHexOnly(archive_inspector, dest_repo) ==
    LET digest == archive_inspector.digest
        colons == {i \in DOMAIN digest : digest[i] = ":"}
        last == IF colons = {} THEN 0 ELSE CHOOSE i \in colons : \A j \in colons : j <= i
    IN  <<dest_repo, ":">> \o SubSeq(digest, last + 1, Len(digest))

get_mirroring_destination(archive_inspector, dest_repo) ==
    LET tag == Replace(archive_inspector.digest, ":", "-")
    IN  <<dest_repo, ":">> \o tag

\* the NamedTuple with its defaults
PayloadEntry(dest_pullspec, image_meta, build_inspector, archive_inspector, rhcos_build) ==
    [dest_pullspec     |-> dest_pullspec,
     inconsistencies   |-> <<>>,
     image_meta        |-> image_meta,
     build_inspector   |-> build_inspector,
     archive_inspector |-> archive_inspector,
     rhcos_build       |-> rhcos_build]

\* ComponentEntry that leaves the build inspector at its default
ComponentEntryNoBuild(archive_inspector, dest_repo) ==
    PayloadEntry(get_mirroring_destination(archive_inspector, dest_repo),
                 archive_inspector.image_meta,
                 None,
                 archive_inspector,
                 None)

\* the entry built for a tag that has an archive
ComponentEntry(archive_inspector, dest_repo) ==
    PayloadEntry(get_mirroring_destination(archive_inspector, dest_repo),
                 archive_inspector.image_meta,
                 archive_inspector.build_inspector,
                 archive_inspector,
                 None)

\* RHCOSBuildInspector of one architecture
RhcosBuild(arch) ==
    [arch     |-> arch,
     pullspec |-> <<"quay.io/openshift-release-dev/ocp-v4.0-art-dev", "@", "sha256", ":", "rhcos" \o arch>>]

\* the machine-os-content entry
RhcosEntry(rhcos_build) ==
    PayloadEntry(rhcos_build.pullspec, None, None, None, rhcos_build)

\* first loop: tag -> entry or None
EntryMembers(mapping, dest_repo) ==
    [t \in DOMAIN mapping |->
        IF mapping[t] = None THEN None ELSE ComponentEntry(mapping[t], dest_repo)]

\* FillWithPod that leaves a tag without an entry out of the result
FillSkipsMissing(members, pod_entry) ==
    [t \in {k \in DOMAIN members : members[k] # None} |-> members[t]]

\* second loop: None is replaced by the pod entry
FillWithPod(members, pod_entry) ==
    [t \in DOMAIN members |-> IF members[t] # None THEN members[t] ELSE pod_entry]

\* the outcomes of assembly_inspector.get_rhcos_build(arch): the build of the arch, or
\* None for the case that no build is resolvable and the call raises
get_rhcos_build(arch) == {RhcosBuild(arch), None}

\* find_payload_entries that keeps the entry of a component for 'machine-os-content'
find_payload_entriesKeepsClaimed(g, arch, dest_repo, rhcos) ==
    LET members == EntryMembers(get_group_payload_tag_mapping(g, arch), dest_repo)
        pod_entry == DictGet(members, "pod")
        final_members == FillWithPod(members, pod_entry)
    IN  IF pod_entry = None THEN Raised("Unable to find pod image archive")
        ELSE IF rhcos = None THEN Raised("No RHCOS build")
        ELSE IF "machine-os-content" \in DOMAIN final_members THEN Returned(final_members)
        ELSE Returned(DictSet(final_members, "machine-os-content", RhcosEntry(rhcos)))

\* find_payload_entries that only looks for the key 'pod' in the map
find_payload_entriesKeyOnly(g, arch, dest_repo, rhcos) ==
    LET members == EntryMembers(get_group_payload_tag_mapping(g, arch), dest_repo)
    IN  IF "pod" \notin DOMAIN members THEN Raised("Unable to find pod image archive")
        ELSE IF rhcos = None THEN Raised("No RHCOS build")
        ELSE Returned(DictSet(FillWithPod(members, members["pod"]), "machine-os-content", RhcosEntry(rhcos)))

\* rhcos is the outcome of assembly_inspector.get_rhcos_build(arch) at line 440, which
\* comes after the pod test of lines 429-431; without a build the exception of that call
\* leaves find_payload_entries
find_payload_entries(g, arch, dest_repo, rhcos) ==
    LET members == EntryMembers(get_group_payload_tag_mapping(g, arch), dest_repo)
        pod_entry == DictGet(members, "pod")
    IN  IF pod_entry = None THEN Raised("Unable to find pod image archive")
        ELSE IF rhcos = None THEN Raised("No RHCOS build")
        ELSE Returned(DictSet(FillWithPod(members, pod_entry), "machine-os-content", RhcosEntry(rhcos)))

DestRepo == "quay.io/openshift-release-dev/ocp-v4.0-art-dev"

----------------------------------------------------------------------------
(* Specification of the payload functions *)

InitPayload ==
    /\ OthersIdle
    /\ group_release_images \in {WithKeys(g) : g \in Groups}
    /\ tag_mapping = [a \in Arches |-> NotCalled]
    /\ payload_entries = [a \in Arches |-> NotCalled]
    /\ build_image_inspectors = Idle
    /\ mismatched_siblings = NotCalled
    /\ rhcos_builds = Idle
    /\ rhcos_inconsistencies = NotCalled
    /\ inconsistencies = Idle
    /\ annotation = NotCalled

\* find_payload_entries(assembly_inspector, arch, dest_repo); the tag mapping it obtained
\* from get_group_payload_tag_mapping is kept next to its outcome
FindPayloadEntries(arch, rhcos) ==
    /\ UNCHANGED <<mirror_vars, run_vars>>
    /\ payload_entries[arch] = NotCalled
    /\ tag_mapping' = [tag_mapping EXCEPT
            ![arch] = Returned(get_group_payload_tag_mapping(group_release_images, arch))]
    /\ payload_entries' = [payload_entries EXCEPT
            ![arch] = find_payload_entries(group_release_images, arch, DestRepo, rhcos)]
    /\ UNCHANGED <<group_release_images, build_image_inspectors, mismatched_siblings,
                   rhcos_builds, rhcos_inconsistencies, inconsistencies, annotation>>

NextPayload == \E arch \in Arches : \E rhcos \in get_rhcos_build(arch) : FindPayloadEntries(arch, rhcos)

SpecPayload == InitPayload /\ [][NextPayload]_vars

----------------------------------------------------------------------------
(* Properties of the payload functions *)

IsReturned(outcome) == outcome.status = "returned"

IsRaised(outcome) == outcome.status = "raised"

\* component c puts its tag into the payload of the assembly
ClaimsTag(c) == c.has_build /\ c.is_payload

\* C1: for one assembly, the payload tag names returned by find_payload_entries for two
\* architectures on which it succeeds are the same set
C1_TagSetsAgree ==
    \A a1, a2 \in Arches :
        (IsReturned(payload_entries[a1]) /\ IsReturned(payload_entries[a2]))
            => DOMAIN payload_entries[a1].value = DOMAIN payload_entries[a2].value

\* both architectures succeeded and some tag has an archive on one and none on the other
C1_Witness ==
    /\ \A a \in Arches : IsReturned(payload_entries[a])
    /\ \E a1, a2 \in Arches : \E t \in DOMAIN tag_mapping[a1].value :
          /\ t \in DOMAIN tag_mapping[a2].value
          /\ tag_mapping[a1].value[t] = None
          /\ tag_mapping[a2].value[t] # None
          /\ t # "machine-os-content"

\* E = g[i] declares its tag explicitly and has an archive for arch, and every other
\* claimant of the tag is implicit
ExplicitAgainstImplicit(g, i, arch) ==
    /\ ClaimsTag(g[i]) /\ g[i].explicit
    /\ arch \in g[i].arches /\ arch \in g[i].archive_arches
    /\ \A j \in DOMAIN g \ {i} :
          (ClaimsTag(g[j]) /\ g[j].tag_name = g[i].tag_name) => ~g[j].explicit

\* C2: in get_group_payload_tag_mapping a tag declared explicitly by a component that has
\* an archive for the arch maps to that archive when all other claimants are implicit,
\* in every iteration order and whatever the implicit claimants are built for
C2_ExplicitAlwaysWins ==
    \A a \in Arches : \A i \in DOMAIN group_release_images :
        (IsReturned(tag_mapping[a]) /\ ExplicitAgainstImplicit(group_release_images, i, a))
            => /\ group_release_images[i].tag_name \in DOMAIN tag_mapping[a].value
               /\ tag_mapping[a].value[group_release_images[i].tag_name]
                     = ArchiveInspector(group_release_images[i], a)

\* A = g[i] explicit and B = g[j] implicit claim one tag, both are built for arch with an
\* archive, and no other component puts a tag into the payload
ExplicitAndImplicitPair(g, i, j, arch) ==
    /\ i # j
    /\ ClaimsTag(g[i]) /\ ClaimsTag(g[j])
    /\ g[i].tag_name = g[j].tag_name
    /\ g[i].explicit /\ ~g[j].explicit
    /\ arch \in g[i].arches /\ arch \in g[i].archive_arches
    /\ arch \in g[j].arches /\ arch \in g[j].archive_arches
    /\ \A k \in DOMAIN g \ {i, j} : ~ClaimsTag(g[k])

\* C3: components A (explicit) and B (implicit) with the same tag T, both with an archive
\* for the arch: the map has the single key T, mapped to A's archive, in either order
C3_ExplicitPairUsesExplicit ==
    \A a \in Arches : \A i, j \in DOMAIN group_release_images :
        (IsReturned(tag_mapping[a]) /\ ExplicitAndImplicitPair(group_release_images, i, j, a))
            => /\ DOMAIN tag_mapping[a].value = {group_release_images[i].tag_name}
               /\ tag_mapping[a].value[group_release_images[i].tag_name]
                     = ArchiveInspector(group_release_images[i], a)

\* the mapping was computed for a pair in which the explicit component is iterated first
C3_Witness ==
    \E a \in Arches : \E i, j \in DOMAIN group_release_images :
        /\ IsReturned(tag_mapping[a])
        /\ ExplicitAndImplicitPair(group_release_images, i, j, a)
        /\ i < j

PodError == "Unable to find pod image archive"

\* the tag map of arch has a real archive under 'pod'
HasPodArchive(arch) ==
    /\ "pod" \in DOMAIN tag_mapping[arch].value
    /\ tag_mapping[arch].value["pod"] # None

\* the returned 'pod' entry is backed by an archive of arch
PodEntryIsReal(arch) ==
    /\ "pod" \in DOMAIN payload_entries[arch].value
    /\ payload_entries[arch].value["pod"] # None
    /\ payload_entries[arch].value["pod"].archive_inspector # None
    /\ payload_entries[arch].value["pod"].archive_inspector.arch = arch

\* C4 as stated: find_payload_entries fails exactly when the tag map has no real archive
\* under 'pod', and a normal return has a 'pod' entry backed by an archive of the arch
C4_FailsExactlyWithoutPod ==
    \A a \in Arches :
        payload_entries[a] # NotCalled
            => /\ IsRaised(payload_entries[a]) <=> ~HasPodArchive(a)
               /\ IsReturned(payload_entries[a]) => PodEntryIsReal(a)

\* C4 amended: find_payload_entries raises the pod error exactly when the tag map has no
\* real archive under 'pod'; its only other failure is an unresolvable RHCOS build; a
\* normal return has a 'pod' entry backed by an archive of the arch
C4_PodErrorExactlyWithoutPod ==
    \A a \in Arches :
        payload_entries[a] # NotCalled
            => /\ (IsRaised(payload_entries[a]) /\ payload_entries[a].error = PodError)
                      <=> ~HasPodArchive(a)
               /\ (IsRaised(payload_entries[a]) /\ payload_entries[a].error # PodError)
                      => payload_entries[a].error = "No RHCOS build"
               /\ IsReturned(payload_entries[a]) => PodEntryIsReal(a)

\* the call failed for an arch whose tag map has the key 'pod' mapped to None
C4_Witness ==
    \E a \in Arches :
        /\ IsRaised(payload_entries[a])
        /\ payload_entries[a].error = PodError
        /\ "pod" \in DOMAIN tag_mapping[a].value

\* entry e exists and has the destination d
HasDest(e, d) == e # None /\ e.dest_pullspec = d

\* the destination of an archive: the repository, ':', and the digest with '-' for ':'
DestOfDigest(digest) == <<DestRepo, ":", digest[1], "-", digest[3]>>

\* tag t of the returned entries follows the fallback rule
FallbackRule(a, t) ==
    LET mapping == tag_mapping[a].value
        entries == payload_entries[a].value
    IN  /\ t \in DOMAIN entries
        /\ "pod" \in DOMAIN entries /\ entries["pod"] # None
        /\ mapping[t] = None => HasDest(entries[t], entries["pod"].dest_pullspec)
        /\ mapping[t] # None => HasDest(entries[t], DestOfDigest(mapping[t].digest))

\* C5 as stated: every tag the tag map sends to None has the destination of the 'pod'
\* entry, every tag with an archive the destination derived from its own digest
C5_FallbackForEveryTag ==
    \A a \in Arches :
        IsReturned(payload_entries[a])
            => \A t \in DOMAIN tag_mapping[a].value : FallbackRule(a, t)

\* C5 amended: the same for every tag other than 'machine-os-content', whose entry is
\* always the RHCOS one
C5_FallbackForGroupTags ==
    \A a \in Arches :
        IsReturned(payload_entries[a])
            => \A t \in DOMAIN tag_mapping[a].value \ {"machine-os-content"} : FallbackRule(a, t)

\* a tag other than pod without an archive was filled, next to a tag with an own archive
C5_Witness ==
    \E a \in Arches :
        /\ IsReturned(payload_entries[a])
        /\ \E t \in DOMAIN tag_mapping[a].value \ {"pod", "machine-os-content"} :
              tag_mapping[a].value[t] = None
        /\ \E a2 \in Arches \ {a} :
              /\ IsReturned(payload_entries[a2])
              /\ \E t \in DOMAIN tag_mapping[a2].value \ {"pod", "machine-os-content"} :
                    tag_mapping[a2].value[t] # None

ComponentBacked(e) ==
    /\ e # None
    /\ e.image_meta # None /\ e.build_inspector # None /\ e.archive_inspector # None
    /\ e.rhcos_build = None

RhcosBacked(e) ==
    /\ e # None
    /\ e.image_meta = None /\ e.build_inspector = None /\ e.archive_inspector = None
    /\ e.rhcos_build # None

\* C6: every entry returned by find_payload_entries is component-backed or RHCOS-backed,
\* never both and never neither
C6_EntryIsOneVariant ==
    \A a \in Arches :
        IsReturned(payload_entries[a])
            => \A t \in DOMAIN payload_entries[a].value :
                  LET e == payload_entries[a].value[t]
                  IN  /\ ComponentBacked(e) \/ RhcosBacked(e)
                      /\ ~(ComponentBacked(e) /\ RhcosBacked(e))

\* a returned map holds entries of both variants and a filled placeholder
C6_Witness ==
    \E a \in Arches :
        /\ IsReturned(payload_entries[a])
        /\ \E t \in DOMAIN payload_entries[a].value : ComponentBacked(payload_entries[a].value[t])
        /\ \E t \in DOMAIN payload_entries[a].value : RhcosBacked(payload_entries[a].value[t])
        /\ \E t \in DOMAIN tag_mapping[a].value \ {"machine-os-content"} :
              tag_mapping[a].value[t] = None

----------------------------------------------------------------------------
(* PayloadGenerator.find_mismatched_siblings *)

SourceUrls == {"", "u1", "u2"}

SourceCommits == {"", "c1", "c2"}

\* what the assembly may hold for one component: no build, or a build with its source
\* git URL and commit ("" where the build has none)
BuildChoices == {None} \cup [source_url : SourceUrls, source_git_commit : SourceCommits]

\* the builds in iteration order, the NVR of a build being its position
BuildLists ==
    {[i \in DOMAIN l |-> IF l[i] = None THEN None ELSE [nvr |-> i] @@ l[i]] :
        l \in UNION {[1..n -> BuildChoices] : n \in 0..MaxBuilds}}

\* SiblingsStep that takes every build with a source URL, with or without a commit
SiblingsStepUrlOnly(st, b) ==
    IF b = None THEN st
    ELSE IF b.source_url = "" THEN st
    ELSE LET potential_conflict == DictGet(st.repo_builds, b.source_url)
         IN  IF potential_conflict # None
             THEN IF potential_conflict.source_git_commit # b.source_git_commit
                  THEN [st EXCEPT !.mismatched_siblings =
                            @ \o <<potential_conflict.build_image_inspector, b>>]
                  ELSE st
             ELSE [st EXCEPT !.repo_builds = DictSet(@, b.source_url,
                        [build_image_inspector |-> b, source_git_commit |-> b.source_git_commit])]

\* one pass of the loop body over build b; st holds repo_builds and mismatched_siblings
SiblingsStep(st, b) ==
    IF b = None THEN st
    ELSE IF b.source_url = "" \/ b.source_git_commit = "" THEN st
    ELSE LET potential_conflict == DictGet(st.repo_builds, b.source_url)
         IN  IF potential_conflict # None
             THEN IF potential_conflict.source_git_commit # b.source_git_commit
                  THEN [st EXCEPT !.mismatched_siblings =
                            @ \o <<potential_conflict.build_image_inspector, b>>]
                  ELSE st
             ELSE [st EXCEPT !.repo_builds = DictSet(@, b.source_url,
                        [build_image_inspector |-> b, source_git_commit |-> b.source_git_commit])]

RECURSIVE SiblingsLoop(_, _)
\* the loop over the first n builds
SiblingsLoop(builds, n) ==
    IF n = 0 THEN [repo_builds |-> EmptyDict, mismatched_siblings |-> <<>>]
    ELSE SiblingsStep(SiblingsLoop(builds, n - 1), builds[n])

find_mismatched_siblings(builds) == SiblingsLoop(builds, Len(builds)).mismatched_siblings

InitSiblings ==
    /\ OthersIdle
    /\ build_image_inspectors \in BuildLists
    /\ mismatched_siblings = NotCalled
    /\ group_release_images = Idle
    /\ tag_mapping = Idle
    /\ payload_entries = Idle
    /\ rhcos_builds = Idle
    /\ rhcos_inconsistencies = NotCalled
    /\ inconsistencies = Idle
    /\ annotation = NotCalled

FindMismatchedSiblings ==
    /\ UNCHANGED <<mirror_vars, run_vars>>
    /\ mismatched_siblings = NotCalled
    /\ mismatched_siblings' = Returned(find_mismatched_siblings(build_image_inspectors))
    /\ UNCHANGED <<group_release_images, tag_mapping, payload_entries, build_image_inspectors,
                   rhcos_builds, rhcos_inconsistencies, inconsistencies, annotation>>

NextSiblings == FindMismatchedSiblings

SpecSiblings == InitSiblings /\ [][NextSiblings]_vars

\* the builds that take part in the check: those with a source URL and a commit
SelectedBuilds(builds) ==
    {b \in Range(builds) : b # None /\ b.source_url # "" /\ b.source_git_commit # ""}

CommitsOf(builds, url) ==
    {b.source_git_commit : b \in {s \in SelectedBuilds(builds) : s.source_url = url}}

\* C7: for every source URL whose selected builds carry two or more distinct commits,
\* every selected build with that URL is in the list find_mismatched_siblings returns
C7_AllSiblingsReported ==
    IsReturned(mismatched_siblings)
        => \A b \in SelectedBuilds(build_image_inspectors) :
              Cardinality(CommitsOf(build_image_inspectors, b.source_url)) >= 2
                  => b \in Range(mismatched_siblings.value)

\* C8: find_mismatched_siblings returns the empty list exactly when, for every source URL,
\* the selected builds with that URL share one commit; when exactly two selected builds
\* have a URL and their commits differ, both are in the result
C8_EmptyIffCommitsAgree ==
    IsReturned(mismatched_siblings)
        => /\ (mismatched_siblings.value = <<>>)
                  <=> \A url \in SourceUrls \ {""} :
                          Cardinality(CommitsOf(build_image_inspectors, url)) <= 1
           /\ \A b1, b2 \in SelectedBuilds(build_image_inspectors) :
                  ( /\ b1.source_url = b2.source_url
                    /\ b1.source_git_commit # b2.source_git_commit
                    /\ \A b3 \in SelectedBuilds(build_image_inspectors) :
                          b3.source_url = b1.source_url => b3 \in {b1, b2} )
                      => {b1, b2} \subseteq Range(mismatched_siblings.value)

\* the check ran over two builds of one URL with different commits, next to a build of
\* that URL without a commit
C8_Witness ==
    /\ IsReturned(mismatched_siblings)
    /\ mismatched_siblings.value # <<>>
    /\ \E b \in Range(build_image_inspectors) :
          b # None /\ b.source_url = "u1" /\ b.source_git_commit = ""
    /\ Cardinality(CommitsOf(build_image_inspectors, "u1")) = 2

----------------------------------------------------------------------------
(* PayloadGenerator.find_rhcos_build_rpm_inconsistencies *)

\* the RPM packages an RHCOS build may have installed; a name may contain '-'
Packages == [name : {<<"foo">>, <<"foo", "-", "bar">>}, version : {"1.0", "1.1"}, release : {"1"}]

\* the NVR string of a package: <name>-<version>-<release>
FormatNvr(p) == p.name \o <<"-", p.version, "-", p.release>>

\* rhcos_build.get_rpm_nvrs()
get_rpm_nvrs(rhcos_build) == {FormatNvr(p) : p \in rhcos_build.rpms}

\* kobo.rpmlib.parse_nvr: release follows the last '-', version the one before it
parse_nvr(nvr) ==
    LET dashes == {i \in DOMAIN nvr : nvr[i] = "-"}
        last == CHOOSE i \in dashes : \A j \in dashes : j <= i
        before == CHOOSE i \in dashes \ {last} : \A j \in dashes \ {last} : j <= i
    IN  [name    |-> SubSeq(nvr, 1, before - 1),
         version |-> SubSeq(nvr, before + 1, last - 1),
         release |-> SubSeq(nvr, last + 1, Len(nvr))]

\* the inner loop: the NVRs of one build are added to rpm_uses
AddRpmUses(rpm_uses, nvrs) ==
    LET names == {parse_nvr(nvr).name : nvr \in nvrs}
    IN  [rpm_name \in (DOMAIN rpm_uses) \cup names |->
            (IF rpm_name \in DOMAIN rpm_uses THEN rpm_uses[rpm_name] ELSE {})
                \cup {nvr \in nvrs : parse_nvr(nvr).name = rpm_name}]

RECURSIVE RpmUsesLoop(_, _)
\* the outer loop over the first n builds
RpmUsesLoop(builds, n) ==
    IF n = 0 THEN EmptyDict
    ELSE AddRpmUses(RpmUsesLoop(builds, n - 1), get_rpm_nvrs(builds[n]))

\* the dict restricted to the keys in keep
Restrict(d, keep) == [k \in keep |-> d[k]]

\* find_rhcos_build_rpm_inconsistencies that reports every package name it saw
find_rhcos_build_rpm_inconsistenciesAll(builds) ==
    LET rpm_uses == RpmUsesLoop(builds, Len(builds))
    IN  Restrict(rpm_uses, {rpm_name \in DOMAIN rpm_uses : Cardinality(rpm_uses[rpm_name]) >= 1})

find_rhcos_build_rpm_inconsistencies(builds) ==
    LET rpm_uses == RpmUsesLoop(builds, Len(builds))
    IN  Restrict(rpm_uses, {rpm_name \in DOMAIN rpm_uses : Cardinality(rpm_uses[rpm_name]) > 1})

RhcosBuildLists ==
    UNION {[1..n -> [rpms : SUBSET Packages]] : n \in 0..MaxRhcosBuilds}

InitRhcos ==
    /\ OthersIdle
    /\ rhcos_builds \in RhcosBuildLists
    /\ rhcos_inconsistencies = NotCalled
    /\ group_release_images = Idle
    /\ tag_mapping = Idle
    /\ payload_entries = Idle
    /\ build_image_inspectors = Idle
    /\ mismatched_siblings = NotCalled
    /\ inconsistencies = Idle
    /\ annotation = NotCalled

FindRhcosBuildRpmInconsistencies ==
    /\ UNCHANGED <<mirror_vars, run_vars>>
    /\ rhcos_inconsistencies = NotCalled
    /\ rhcos_inconsistencies' = Returned(find_rhcos_build_rpm_inconsistencies(rhcos_builds))
    /\ UNCHANGED <<group_release_images, tag_mapping, payload_entries, build_image_inspectors,
                   mismatched_siblings, rhcos_builds, inconsistencies, annotation>>

NextRhcos == FindRhcosBuildRpmInconsistencies

SpecRhcos == InitRhcos /\ [][NextRhcos]_vars

\* the packages installed in any of the builds
InstalledPackages(builds) == UNION {builds[i].rpms : i \in DOMAIN builds}

\* the NVRs under which the package called name is installed in the builds
NvrsOfName(builds, name) == {FormatNvr(p) : p \in {q \in InstalledPackages(builds) : q.name = name}}

\* C9: find_rhcos_build_rpm_inconsistencies returns a map whose keys are exactly the package
\* names installed with two or more distinct NVRs across the builds, each mapped to the set
\* of all NVRs seen for that name; it is empty when every package has a single NVR
C9_RpmInconsistenciesExact ==
    IsReturned(rhcos_inconsistencies)
        => /\ DOMAIN rhcos_inconsistencies.value
                  = {p.name : p \in {q \in InstalledPackages(rhcos_builds) :
                                        Cardinality(NvrsOfName(rhcos_builds, q.name)) >= 2}}
           /\ \A name \in DOMAIN rhcos_inconsistencies.value :
                  rhcos_inconsistencies.value[name] = NvrsOfName(rhcos_builds, name)

\* two builds have one package at different versions and another one at the same version
C9_Witness ==
    /\ IsReturned(rhcos_inconsistencies)
    /\ DOMAIN rhcos_inconsistencies.value = {<<"foo">>}
    /\ Cardinality(rhcos_inconsistencies.value[<<"foo">>]) = 2
    /\ \E p \in InstalledPackages(rhcos_builds) : p.name = <<"foo", "-", "bar">>
    /\ Len(rhcos_builds) = 2
    /\ \A i \in DOMAIN rhcos_builds :
          Cardinality({p \in rhcos_builds[i].rpms : p.name = <<"foo">>}) = 1

----------------------------------------------------------------------------
(* PayloadGenerator._build_inconsistency_annotation *)

\* issue strings as codepoints: "B", "a", "ab"
Issues == {<<66>>, <<97>>, <<97, 98>>}

\* "(...and more)"
Marker == <<40, 46, 46, 46, 97, 110, 100, 32, 109, 111, 114, 101, 41>>

InconsistencyKey == "release.openshift.io/inconsistency"

TruncateAfter == 5

RECURSIVE StrLess(_, _)
\* s < t of two Python strings: codepoint by codepoint, a proper prefix is smaller
StrLess(s, t) ==
    IF t = <<>> THEN FALSE
    ELSE IF s = <<>> THEN TRUE
    ELSE IF Head(s) # Head(t) THEN Head(s) < Head(t)
    ELSE StrLess(Tail(s), Tail(t))

RECURSIVE InsertSorted(_, _)
\* x put into the sorted list l, behind the elements that are not greater
InsertSorted(l, x) ==
    IF l = <<>> THEN <<x>>
    ELSE IF StrLess(x, Head(l)) THEN <<x>> \o l
    ELSE <<Head(l)>> \o InsertSorted(Tail(l), x)

RECURSIVE sorted(_)
\* sorted(l): a new list
sorted(l) == IF l = <<>> THEN <<>> ELSE InsertSorted(sorted(SubSeq(l, 1, Len(l) - 1)), l[Len(l)])

RECURSIVE JoinQuoted(_)
\* the items in double quotes, separated by ", "
JoinQuoted(l) ==
    IF l = <<>> THEN <<>>
    ELSE <<34>> \o Head(l) \o <<34>> \o (IF Len(l) > 1 THEN <<44, 32>> ELSE <<>>) \o JoinQuoted(Tail(l))

\* json.dumps of a list of strings that need no escaping
json_dumps(l) == <<91>> \o JoinQuoted(l) \o <<93>>

\* l[n:] = [x]
SliceAssign(l, n, x) == SubSeq(l, 1, n) \o <<x>>

\* _build_inconsistency_annotation that sorts and truncates the caller's list in place
_build_inconsistency_annotationInPlace(l) ==
    IF l = <<>> THEN [annotation |-> EmptyDict, inconsistencies |-> l]
    ELSE LET sorted_list == sorted(l)
             truncated == IF Len(sorted_list) > TruncateAfter
                          THEN SliceAssign(sorted_list, TruncateAfter, Marker)
                          ELSE sorted_list
         IN  [annotation |-> DictSet(EmptyDict, InconsistencyKey, json_dumps(truncated)),
              inconsistencies |-> truncated]

\* the returned dict, and the list of the caller after the call: the local name is bound
\* to the new list sorted() makes, so the slice assignment does not reach the caller's
_build_inconsistency_annotation(l) ==
    IF l = <<>> THEN [annotation |-> EmptyDict, inconsistencies |-> l]
    ELSE LET sorted_list == sorted(l)
             truncated == IF Len(sorted_list) > TruncateAfter
                          THEN SliceAssign(sorted_list, TruncateAfter, Marker)
                          ELSE sorted_list
         IN  [annotation |-> DictSet(EmptyDict, InconsistencyKey, json_dumps(truncated)),
              inconsistencies |-> l]

IssueLists == UNION {[1..n -> Issues] : n \in 0..MaxIssues}

InitAnnotation ==
    /\ OthersIdle
    /\ inconsistencies \in IssueLists
    /\ annotation = NotCalled
    /\ group_release_images = Idle
    /\ tag_mapping = Idle
    /\ payload_entries = Idle
    /\ build_image_inspectors = Idle
    /\ mismatched_siblings = NotCalled
    /\ rhcos_builds = Idle
    /\ rhcos_inconsistencies = NotCalled

BuildInconsistencyAnnotation ==
    /\ UNCHANGED <<mirror_vars, run_vars>>
    /\ annotation = NotCalled
    /\ annotation' = Returned(_build_inconsistency_annotation(inconsistencies).annotation)
    /\ inconsistencies' = _build_inconsistency_annotation(inconsistencies).inconsistencies
    /\ UNCHANGED <<group_release_images, tag_mapping, payload_entries, build_image_inspectors,
                   mismatched_siblings, rhcos_builds, rhcos_inconsistencies>>

NextAnnotation == BuildInconsistencyAnnotation

SpecAnnotation == InitAnnotation /\ [][NextAnnotation]_vars

RECURSIVE JsonItems(_, _, _, _, _)
\* the strings of a serialized list: what stands between an opening and a closing quote
JsonItems(s, i, in_string, current, items) ==
    IF i > Len(s) THEN items
    ELSE IF s[i] = 34
         THEN IF in_string
              THEN JsonItems(s, i + 1, FALSE, <<>>, Append(items, current))
              ELSE JsonItems(s, i + 1, TRUE, <<>>, items)
         ELSE IF in_string
              THEN JsonItems(s, i + 1, TRUE, Append(current, s[i]), items)
              ELSE JsonItems(s, i + 1, FALSE, current, items)

json_loads(s) == JsonItems(s, 1, FALSE, <<>>, <<>>)

\* how often x occurs in l
Count(l, x) == Cardinality({i \in DOMAIN l : l[i] = x})

\* l is in lexicographic order
InOrder(l) == \A i, j \in DOMAIN l : i < j => ~StrLess(l[j], l[i])

\* items are the n smallest of l, in order
SmallestOf(items, l, n) ==
    /\ Len(items) = n
    /\ InOrder(items)
    /\ \A x \in Range(l) \cup Range(items) : Count(items, x) <= Count(l, x)
    /\ \A x \in Range(l) :
          Count(items, x) < Count(l, x) => (n > 0 /\ ~StrLess(x, items[n]))

\* dict ann is the annotation of the issue list l
AnnotationOf(ann, l) ==
    IF l = <<>> THEN InconsistencyKey \notin DOMAIN ann
    ELSE /\ DOMAIN ann = {InconsistencyKey}
         /\ LET items == json_loads(ann[InconsistencyKey])
            IN  /\ ann[InconsistencyKey] = json_dumps(items)
                /\ IF Len(l) <= 5
                   THEN SmallestOf(items, l, Len(l))
                   ELSE /\ Len(items) = 6
                        /\ SmallestOf(SubSeq(items, 1, 5), l, 5)
                        /\ items[6] = Marker

\* C10: _build_inconsistency_annotation(L) has no annotation key for an empty L, the
\* serialization of L in lexicographic order for 1 to 5 issues, the first 5 of the order
\* followed by the marker for more than 5, and leaves the caller's list as it was
C10_AnnotationOfIssues ==
    [][annotation' # annotation
          => /\ IsReturned(annotation')
             /\ AnnotationOf(annotation'.value, inconsistencies)
             /\ inconsistencies' = inconsistencies]_vars

\* the annotation of 7 issues out of order, of which the two largest are cut
C10_Witness ==
    /\ IsReturned(annotation)
    /\ Len(inconsistencies) = 7
    /\ ~InOrder(inconsistencies)
    /\ Count(inconsistencies, <<97, 98>>) = 2
    /\ Count(inconsistencies, <<66>>) >= 1
    /\ Len(json_loads(annotation.value[InconsistencyKey])) = 6

----------------------------------------------------------------------------
(* Specification of get_mirroring_destination *)

\* digests <algorithm>:<hex>; the name of an algorithm may contain '-'
Digests ==
    {alg \o <<":", hex>> : alg \in {<<"sha256">>, <<"sha512">>, <<"sha", "-", "256">>},
                           hex \in {"ab", "cd"}}

\* the repositories the code mirrors to: the quay repository of the command, and ''
\* in the nightly check
DestRepos == {"quay.io/openshift-release-dev/ocp-v4.0-art-dev", ""}

\* an archive of the build of component dgk with the given digest
MirrorArchives ==
    {[image_meta      |-> [distgit_key |-> dgk],
      build_inspector |-> [nvr |-> dgk],
      arch            |-> "x86_64",
      digest          |-> digest] : dgk \in 1..MaxComponents, digest \in Digests}

MirrorCallers == {"first", "second"}

InitMirror ==
    /\ mirror_calls \in [MirrorCallers -> [archive_inspector : MirrorArchives, dest_repo : DestRepos]]
    /\ mirror_destinations = [c \in MirrorCallers |-> NotCalled]
    /\ pc = Idle /\ run_outcome = Idle /\ assembly = Idle /\ options = Idle
    /\ arch_index = Idle /\ rhcos_resolved = Idle /\ assembly_wide_inconsistencies = Idle
    /\ report = Idle /\ src_dest = Idle /\ image_streams = Idle
    /\ preflight = Idle /\ nightly = Idle
    /\ group_release_images = Idle
    /\ tag_mapping = Idle
    /\ payload_entries = Idle
    /\ build_image_inspectors = Idle
    /\ mismatched_siblings = NotCalled
    /\ rhcos_builds = Idle
    /\ rhcos_inconsistencies = NotCalled
    /\ inconsistencies = Idle
    /\ annotation = NotCalled

GetMirroringDestination(c) ==
    /\ mirror_destinations[c] = NotCalled
    /\ mirror_destinations' = [mirror_destinations EXCEPT ![c] =
            Returned(get_mirroring_destination(mirror_calls[c].archive_inspector,
                                               mirror_calls[c].dest_repo))]
    /\ UNCHANGED <<mirror_calls, run_vars, group_release_images, tag_mapping, payload_entries,
                   build_image_inspectors, mismatched_siblings, rhcos_builds,
                   rhcos_inconsistencies, inconsistencies, annotation>>

NextMirror == \E c \in MirrorCallers : GetMirroringDestination(c)

SpecMirror == InitMirror /\ [][NextMirror]_vars

\* d is repo, ':' and the digest with every ':' turned into '-'
IsDestinationOf(d, repo, digest) ==
    /\ Len(d) = Len(digest) + 2
    /\ d[1] = repo
    /\ d[2] = ":"
    /\ \A k \in DOMAIN digest : d[k + 2] = (IF digest[k] = ":" THEN "-" ELSE digest[k])

\* C11: get_mirroring_destination returns dest_repo, ':' and the digest with '-' for every
\* ':'; it depends on dest_repo and the digest only, and for one dest_repo two different
\* digests <algorithm>:<hex> have different destinations
C11_DestinationOfDigest ==
    /\ \A c \in MirrorCallers :
          IsReturned(mirror_destinations[c])
              => IsDestinationOf(mirror_destinations[c].value, mirror_calls[c].dest_repo,
                                 mirror_calls[c].archive_inspector.digest)
    /\ \A c1, c2 \in MirrorCallers :
          ( /\ IsReturned(mirror_destinations[c1]) /\ IsReturned(mirror_destinations[c2])
            /\ mirror_calls[c1].dest_repo = mirror_calls[c2].dest_repo )
              => ( (mirror_destinations[c1].value = mirror_destinations[c2].value)
                      <=> (mirror_calls[c1].archive_inspector.digest
                              = mirror_calls[c2].archive_inspector.digest) )

\* archives of two components with one digest were given one destination, the name of
\* the algorithm containing a '-'
C11_Witness ==
    /\ \A c \in MirrorCallers : IsReturned(mirror_destinations[c])
    /\ mirror_calls["first"].archive_inspector.image_meta
          # mirror_calls["second"].archive_inspector.image_meta
    /\ mirror_calls["first"].archive_inspector.digest = <<"sha", "-", "256", ":", "ab">>
    /\ mirror_calls["second"].archive_inspector.digest = <<"sha", "-", "256", ":", "ab">>
    /\ mirror_calls["first"].dest_repo = mirror_calls["second"].dest_repo

----------------------------------------------------------------------------
(* The command release_gen_payload: its inputs *)

\* runtime.arches in the order of the loop
runtime_arches == <<"x86_64", "s390x">>

\* runtime.get_minor_version()
MinorVersion == "4.8"

\* runtime.assembly with runtime.assembly_type; 'stream' and an assembly that the
\* releases configuration does not define, such as 'test', have the type STREAM
Assemblies ==
    {[name |-> "stream", type |-> "STREAM"],
     [name |-> "test",   type |-> "STREAM"],
     [name |-> "art1",   type |-> "STANDARD"],
     [name |-> "art1",   type |-> "CUSTOM"]}

\* the components of the group with what the assembly selected for them: all from one
\* source repository; a build may lack the archive of s390x, be under embargo and come
\* from another commit than the rest
RunComponent(t, aa, embargo, commit) ==
    [has_build |-> TRUE, is_payload |-> TRUE, tag_name |-> t, explicit |-> FALSE,
     arches |-> Arches, archive_arches |-> aa, under_embargo |-> embargo,
     source_url |-> "u1", source_git_commit |-> commit]

RunComponentChoices ==
    {RunComponent("pod", Arches, FALSE, "c1"),
     RunComponent("pod", {"x86_64"}, FALSE, "c1"),
     RunComponent("a", Arches, FALSE, "c1"),
     RunComponent("a", {"x86_64"}, FALSE, "c1"),
     RunComponent("a", Arches, TRUE, "c2"),
     [has_build |-> FALSE, is_payload |-> TRUE, tag_name |-> "a", explicit |-> FALSE,
      arches |-> Arches, archive_arches |-> {},
      under_embargo |-> FALSE, source_url |-> "", source_git_commit |-> ""]}

RunGroups == UNION {[1..n -> RunComponentChoices] : n \in 0..MaxComponents}

\* the BrewBuildImageInspector of component c, None without a build
BuildInspectorOf(c) ==
    IF c.has_build
    THEN [nvr |-> c.dgk, source_url |-> c.source_url, source_git_commit |-> c.source_git_commit]
    ELSE None

\* assembly_inspector.get_group_release_images().values()
GroupBuilds(g) == [i \in DOMAIN g |-> BuildInspectorOf(g[i])]

\* build_inspector.is_under_embargo()
is_under_embargo(g, build_inspector) == g[build_inspector.nvr].under_embargo

\* an option that the command has not read yet
Unread == "unread"

OptionValues == {"yes", "no"}

\* a file that the command has not written
NotWritten == [written |-> FALSE]

Written(content) == [written |-> TRUE, content |-> content]

\* the state of check_nightlies_consistency before it is called
NightlyIdle ==
    [stage |-> "idle", reference_releases |-> <<>>, index |-> 0, retries |-> 0, rc |-> -1,
     fetches |-> <<>>, manifest |-> <<>>, results |-> <<>>, issues |-> <<>>]

InitRun ==
    /\ group_release_images \in {WithKeys(g) : g \in RunGroups}
    /\ assembly \in Assemblies
    /\ pc = "siblings"
    /\ run_outcome = NotCalled
    /\ options = [permit_mismatched_siblings |-> Unread,
                  permit_invalid_reference_releases |-> Unread,
                  exclude_arch |-> [a \in Arches |-> Unread]]
    /\ arch_index = 1
    /\ rhcos_resolved = [a \in Arches |-> NotCalled]
    /\ assembly_wide_inconsistencies = <<>>
    /\ report = EmptyDict
    /\ src_dest = [a \in Arches |-> NotWritten]
    /\ image_streams = [f \in Arches \X BOOLEAN |-> NotWritten]
    /\ preflight = NotCalled
    /\ nightly = NightlyIdle
    /\ mismatched_siblings = NotCalled
    /\ tag_mapping = [a \in Arches |-> NotCalled]
    /\ payload_entries = [a \in Arches |-> NotCalled]
    /\ mirror_calls = Idle /\ mirror_destinations = Idle
    /\ build_image_inspectors = Idle
    /\ rhcos_builds = Idle
    /\ rhcos_inconsistencies = NotCalled
    /\ inconsistencies = Idle
    /\ annotation = NotCalled

\* what no step of the command changes
RunFrame ==
    UNCHANGED <<group_release_images, assembly, mirror_vars, build_image_inspectors,
                rhcos_builds, rhcos_inconsistencies, inconsistencies, annotation>>

----------------------------------------------------------------------------
(* release_gen_payload, lines 126-139: the sibling check *)

\* f"Mismatched siblings: {mismatched_siblings}": 'M' and a digit for every build listed
SiblingsIssue(siblings) == <<77>> \o [i \in DOMAIN siblings |-> 48 + siblings[i].nvr]

\* SiblingsNotPermitted that only looks at assemblies of type STREAM
SiblingsNotPermittedStreamOnly(asm, siblings) ==
    asm.name # "test" /\ siblings # <<>> /\ asm.type \in {"STREAM"}

\* the condition of line 133
SiblingsNotPermitted(asm, siblings) ==
    asm.name # "test" /\ siblings # <<>> /\ asm.type \in {"STREAM", "STANDARD"}

CheckSiblings ==
    /\ pc = "siblings"
    /\ LET siblings == find_mismatched_siblings(GroupBuilds(group_release_images))
       IN  /\ mismatched_siblings' = Returned(siblings)
           /\ IF SiblingsNotPermitted(assembly, siblings)
              THEN \E permit \in OptionValues :
                      /\ options' = [options EXCEPT !.permit_mismatched_siblings = permit]
                      /\ IF permit = "yes"
                         THEN /\ assembly_wide_inconsistencies' = <<SiblingsIssue(siblings)>>
                              /\ pc' = "preflight"
                              /\ UNCHANGED run_outcome
                         ELSE /\ run_outcome' = Raised("ValueError: mismatched siblings")
                              /\ pc' = "aborted"
                              /\ UNCHANGED assembly_wide_inconsistencies
              ELSE /\ pc' = "preflight"
                   /\ UNCHANGED <<options, assembly_wide_inconsistencies, run_outcome>>
    /\ UNCHANGED <<arch_index, rhcos_resolved, report, src_dest, image_streams, preflight,
                   nightly, tag_mapping, payload_entries>>
    /\ RunFrame

----------------------------------------------------------------------------
(* release_gen_payload, lines 141-213: the report and the checks before the loop *)

\* d.get(k, []).extend(issues): the list of d under k grows; without the key k the
\* list that grows is the default of get, which d does not hold
GetDefaultExtend(d, k, issues) ==
    IF k \in DOMAIN d THEN DictSet(d, k, d[k] \o issues) ELSE d

\* d.get(k, [])
GetDefault(d, k) == IF k \in DOMAIN d THEN d[k] ELSE <<>>

\* the distgit keys of the components with a build
BuiltKeys(g) == {i \in DOMAIN g : g[i].has_build}

\* what the checks of lines 176-204 find: nothing, an issue for every build of an
\* image, or an issue for the rpm of the group
PreflightFindings(g) ==
    {[image |-> {}, rpm |-> <<>>],
     [image |-> BuiltKeys(g), rpm |-> <<>>],
     [image |-> {}, rpm |-> <<<<80>>>>]}

\* the issue a check reports for a build: 'I' and the digit of the component
ImageIssue(dgk) == <<73, 48 + dgk>>

RECURSIVE ImageInconsistenciesLoop(_, _, _)
\* lines 188-204 over the first n components: findings are the components with issues
ImageInconsistenciesLoop(g, n, findings) ==
    IF n = 0 THEN EmptyDict
    ELSE LET d == ImageInconsistenciesLoop(g, n - 1, findings)
         IN  IF g[n].has_build /\ n \in findings
             THEN GetDefaultExtend(d, n, <<ImageIssue(n)>>)
             ELSE d

\* lines 176-180: rpm_issues are the issues of the one rpm of the group
RpmInconsistencies(rpm_issues) ==
    IF rpm_issues # <<>> THEN GetDefaultExtend(EmptyDict, "rpm", rpm_issues) ELSE EmptyDict

\* lines 141-148; assembly_issues is the list assembly_wide_inconsistencies itself
NewReport(g, siblings, issues) ==
    [non_release_images            |-> <<>>,
     release_images                |-> [i \in DOMAIN g |-> i],
     mismatched_siblings           |-> [i \in DOMAIN siblings |-> siblings[i].nvr],
     missing_image_builds          |-> {i \in DOMAIN g : ~g[i].has_build},
     payload_entry_inconsistencies |-> EmptyDict,
     assembly_issues               |-> issues]

\* privacy_modes that has both modes for every assembly
privacy_modesBoth(asm) == {FALSE, TRUE}

\* lines 150-154
privacy_modes(asm) == IF asm.type = "STREAM" THEN {FALSE, TRUE} ELSE {FALSE}

\* lines 157-160: nothing is ever appended to these lists
targeted_rhcos_builds == [private_mode \in BOOLEAN |-> <<>>]

\* exit(1)
Exited(code) == [status |-> "exit", code |-> code]

Preflight ==
    /\ pc = "preflight"
    /\ report' = NewReport(group_release_images, mismatched_siblings.value,
                           assembly_wide_inconsistencies)
    /\ \E findings \in PreflightFindings(group_release_images) :
          LET image_meta_inconsistencies ==
                  ImageInconsistenciesLoop(group_release_images, Len(group_release_images),
                                           findings.image)
              rpm_meta_inconsistencies == RpmInconsistencies(findings.rpm)
          IN  /\ preflight' = [status |-> "checked",
                               image_findings |-> findings.image,
                               rpm_findings |-> findings.rpm,
                               image_meta_inconsistencies |-> image_meta_inconsistencies,
                               rpm_meta_inconsistencies |-> rpm_meta_inconsistencies]
              /\ IF image_meta_inconsistencies # EmptyDict \/ rpm_meta_inconsistencies # EmptyDict
                 THEN /\ run_outcome' = Exited(1)
                      /\ pc' = "aborted"
                 ELSE /\ pc' = "arches"
                      /\ UNCHANGED run_outcome
    /\ UNCHANGED <<options, arch_index, rhcos_resolved, assembly_wide_inconsistencies,
                   src_dest, image_streams, nightly, mismatched_siblings, tag_mapping,
                   payload_entries>>
    /\ RunFrame

----------------------------------------------------------------------------
(* release_gen_payload, lines 215-270: the loop over the architectures *)

\* doozerlib.util.go_suffix_for_arch: nothing for x86_64, '-<arch>' otherwise
go_suffix_for_arch(brew_arch) == IF brew_arch = "x86_64" THEN "" ELSE "-" \o brew_arch

\* lines 20-25
default_imagestream_base_name(asm) ==
    IF asm.name = "stream"
    THEN MinorVersion \o "-art-latest"
    ELSE MinorVersion \o "-art-assembly-" \o asm.name

\* lines 28-29
default_imagestream_namespace_base_name == "ocp"

\* lines 32-40
payload_imagestream_name_and_namespace(base_imagestream_name, base_namespace, brew_arch, private) ==
    LET arch_suffix == go_suffix_for_arch(brew_arch)
        priv_suffix == IF private THEN "-priv" ELSE ""
    IN  [name      |-> base_imagestream_name \o arch_suffix \o priv_suffix,
         namespace |-> base_namespace \o arch_suffix \o priv_suffix]

\* archive_inspector.get_archive_pullspec(): the image in the build system, by digest
get_archive_pullspec(archive_inspector) ==
    <<"registry-proxy.engineering.redhat.com/rh-osbs/openshift", "@">> \o archive_inspector.digest

\* lines 451-464
build_payload_istag(payload_tag_name, payload_entry) ==
    [annotations |-> _build_inconsistency_annotation(payload_entry.inconsistencies).annotation,
     name        |-> payload_tag_name,
     from        |-> [kind |-> "DockerImage", name |-> payload_entry.dest_pullspec]]

\* lines 467-490
build_payload_imagestream(imagestream_name, imagestream_namespace, payload_istags, issues) ==
    [kind       |-> "ImageStream",
     apiVersion |-> "image.openshift.io/v1",
     metadata   |-> [name        |-> imagestream_name,
                     namespace   |-> imagestream_namespace,
                     annotations |-> _build_inconsistency_annotation(issues).annotation],
     spec       |-> [tags |-> payload_istags]]

\* the issue check_rhcos_consistency may report for an RHCOS build: 'R'
RhcosIssueChoices == {<<>>, <<<<82>>>>}

\* the number of tags whose entry is the object e: the placeholders are the pod entry
SharedBy(entries, e) == Cardinality({t \in DOMAIN entries : entries[t] = e})

RECURSIVE Repeat(_, _)
\* n times the list l
Repeat(l, n) == IF n = 0 THEN <<>> ELSE l \o Repeat(l, n - 1)

\* lines 223-228 for the entries that are supported: the inconsistencies attached
AttachInconsistencies(entries, image_meta_inconsistencies, rhcos_issues) ==
    [t \in DOMAIN entries |->
        LET e == entries[t]
        IN  IF e.image_meta # None
            THEN [e EXCEPT !.inconsistencies =
                      @ \o Repeat(GetDefault(image_meta_inconsistencies, e.image_meta.distgit_key),
                                  SharedBy(entries, e))]
            ELSE IF e.rhcos_build # None
            THEN [e EXCEPT !.inconsistencies = @ \o rhcos_issues]
            ELSE e]

\* lines 238-239
RecordEntryInconsistencies(d, entries) ==
    [t \in (DOMAIN d) \cup {k \in DOMAIN entries : entries[k].inconsistencies # <<>>} |->
        IF t \in DOMAIN entries /\ entries[t].inconsistencies # <<>>
        THEN entries[t].inconsistencies
        ELSE d[t]]

\* the line of the mirroring list for an entry with an archive
MirrorLine(payload_entry) ==
    get_archive_pullspec(payload_entry.archive_inspector) \o <<"=">> \o payload_entry.dest_pullspec

\* lines 245-250: the lines written to src_dest.<arch>, as a bag
MirrorLines(entries) ==
    LET mirrored == {t \in DOMAIN entries : entries[t].archive_inspector # None}
    IN  [l \in {MirrorLine(entries[t]) : t \in mirrored} |->
            Cardinality({t \in mirrored : MirrorLine(entries[t]) = l})]

\* IsTags that sends every entry to both release controllers
IsTagsUnfiltered(g, entries, private_mode) ==
    {build_payload_istag(t, entries[t]) : t \in DOMAIN entries}

\* lines 257-262: the istags of one privacy mode
IsTags(g, entries, private_mode) ==
    {build_payload_istag(t, entries[t]) :
        t \in {k \in DOMAIN entries :
                 ~( /\ entries[k].build_inspector # None
                    /\ is_under_embargo(g, entries[k].build_inspector)
                    /\ private_mode = FALSE )}}

\* lines 252-270: the file of one privacy mode
ImageStreamFile(g, asm, arch, entries, private_mode, issues) ==
    LET names == payload_imagestream_name_and_namespace(
                     default_imagestream_base_name(asm),
                     default_imagestream_namespace_base_name, arch, private_mode)
    IN  build_payload_imagestream(names.name, names.namespace,
                                  IsTags(g, entries, private_mode), issues)

\* some entry is neither of a component nor of RHCOS
HasUnsupportedEntry(entries) ==
    \E t \in DOMAIN entries : entries[t].image_meta = None /\ entries[t].rhcos_build = None

\* one pass of the loop over runtime.arches. The RHCOS build of the arch is resolved
\* once; check_rhcos_consistency and find_non_latest_rpms answer as the build system does
ProcessArch ==
    /\ pc = "arches"
    /\ LET arch == runtime_arches[arch_index]
           next_pc == IF arch_index = Len(runtime_arches) THEN "rhcos" ELSE "arches"
       IN  \E excluded \in OptionValues :
           \E rhcos \in get_rhcos_build(arch) :
           \E rhcos_issues \in RhcosIssueChoices :
           \E non_latest_rpm_nvrs \in BOOLEAN :
              /\ options' = [options EXCEPT !.exclude_arch[arch] = excluded]
              /\ IF excluded = "yes"
                 THEN /\ arch_index' = arch_index + 1
                      /\ pc' = next_pc
                      /\ UNCHANGED <<rhcos_resolved, tag_mapping, payload_entries, report,
                                     src_dest, image_streams, run_outcome>>
                 ELSE LET found == find_payload_entries(group_release_images, arch, DestRepo, rhcos)
                          entries == AttachInconsistencies(found.value,
                                         preflight.image_meta_inconsistencies, rhcos_issues)
                      IN  /\ tag_mapping' = [tag_mapping EXCEPT ![arch] =
                                 Returned(get_group_payload_tag_mapping(group_release_images, arch))]
                          /\ rhcos_resolved' =
                                 IF IsRaised(found) /\ found.error = "Unable to find pod image archive"
                                 THEN rhcos_resolved
                                 ELSE [rhcos_resolved EXCEPT ![arch] = Returned(rhcos)]
                          /\ IF IsRaised(found)
                             THEN /\ run_outcome' = found
                                  /\ payload_entries' = [payload_entries EXCEPT ![arch] = found]
                                  /\ pc' = "aborted"
                                  /\ UNCHANGED <<arch_index, report, src_dest, image_streams>>
                             ELSE IF HasUnsupportedEntry(found.value)
                             THEN /\ run_outcome' = Raised("IOError: Unsupported PayloadEntry")
                                  /\ payload_entries' = [payload_entries EXCEPT ![arch] = found]
                                  /\ pc' = "aborted"
                                  /\ UNCHANGED <<arch_index, report, src_dest, image_streams>>
                             ELSE IF assembly.name = "stream" /\ non_latest_rpm_nvrs
                             THEN /\ run_outcome' = Raised("IOError: Found outdated RPMs in RHCOS")
                                  /\ payload_entries' = [payload_entries EXCEPT ![arch] = found]
                                  /\ pc' = "aborted"
                                  /\ UNCHANGED <<arch_index, report, src_dest, image_streams>>
                             ELSE /\ payload_entries' = [payload_entries EXCEPT ![arch] = Returned(entries)]
                                  /\ report' = [report EXCEPT !.payload_entry_inconsistencies =
                                                   RecordEntryInconsistencies(@, entries)]
                                  /\ src_dest' = [src_dest EXCEPT ![arch] = Written(MirrorLines(entries))]
                                  /\ image_streams' =
                                         [f \in Arches \X BOOLEAN |->
                                             IF f[1] = arch /\ f[2] \in privacy_modes(assembly)
                                             THEN Written(ImageStreamFile(group_release_images, assembly,
                                                      arch, entries, f[2], assembly_wide_inconsistencies))
                                             ELSE image_streams[f]]
                                  /\ arch_index' = arch_index + 1
                                  /\ pc' = next_pc
                                  /\ UNCHANGED run_outcome
    /\ UNCHANGED <<assembly_wide_inconsistencies, preflight, nightly, mismatched_siblings>>
    /\ RunFrame

----------------------------------------------------------------------------
(* release_gen_payload, lines 272-278: the RHCOS builds against each other *)

\* rhcos_builds are the lists handed to find_rhcos_build_rpm_inconsistencies, and
\* rhcos_inconsistencies what it returned for them
RhcosCrossCheck ==
    /\ pc = "rhcos"
    /\ IF \E private_mode \in privacy_modes(assembly) :
             find_rhcos_build_rpm_inconsistencies(targeted_rhcos_builds[private_mode]) # EmptyDict
       THEN /\ run_outcome' = Raised("IOError: Found RHCOS inconsistencies in builds")
            /\ pc' = "aborted"
       ELSE /\ pc' = "nightlies"
            /\ UNCHANGED run_outcome
    /\ rhcos_builds' = [private_mode \in privacy_modes(assembly) |->
                            targeted_rhcos_builds[private_mode]]
    /\ rhcos_inconsistencies' = Returned(
           [private_mode \in privacy_modes(assembly) |->
               find_rhcos_build_rpm_inconsistencies(targeted_rhcos_builds[private_mode])])
    /\ UNCHANGED <<options, arch_index, rhcos_resolved, assembly_wide_inconsistencies, report,
                   src_dest, image_streams, preflight, nightly, mismatched_siblings,
                   tag_mapping, payload_entries>>
    /\ UNCHANGED <<group_release_images, assembly, mirror_vars, build_image_inspectors,
                   inconsistencies, annotation>>

----------------------------------------------------------------------------
(* PayloadGenerator.check_nightlies_consistency and _check_nightly_consistency *)

\* line 578
Retries == 3

\* a nightly by what isolate_nightly_name_components finds in its name
Nightly(arch, major_minor) == [arch |-> arch, major_minor |-> major_minor]

\* basis.reference_releases: no nightly, a nightly of another version for x86_64, a
\* nightly of the version of the group for s390x, and both
ReferenceReleaseChoices ==
    {<<>>,
     <<Nightly("x86_64", "4.7")>>,
     <<Nightly("s390x", MinorVersion)>>,
     <<Nightly("x86_64", "4.7"), Nightly("s390x", MinorVersion)>>}

\* a digest that no archive and no RHCOS build of the assembly has
OtherDigest == <<"sha256", ":", "other">>

\* a pull reference by digest
ByDigest(digest) == <<"quay.io/openshift-release-dev/ocp-v4.0-art-dev", "@">> \o digest

\* a pull reference by tag, without digest
ByTag == <<"quay.io/openshift-release-dev/ocp-v4.0-art-dev", ":", "latest">>

\* s.rsplit('@', 1)[-1]
AfterLastAt(s) ==
    LET ats == {i \in DOMAIN s : s[i] = "@"}
        last == IF ats = {} THEN 0 ELSE CHOOSE i \in ats : \A j \in ats : j <= i
    IN  SubSeq(s, last + 1, Len(s))

\* rhcos_build.get_machine_os_content_digest()
get_machine_os_content_digest(rhcos_build) == AfterLastAt(rhcos_build.pullspec)

\* the tags a nightly of arch may have in release_info.references.spec.tags: the first
\* component of the group is behind ArchiveDigest(1, arch)
ManifestTagChoices(arch) ==
    {[name |-> "pod", from_name |-> ByDigest(ArchiveDigest(1, arch))],
     [name |-> "pod", from_name |-> ByDigest(OtherDigest)],
     [name |-> "pod", from_name |-> ByTag],
     [name |-> "a", from_name |-> ByDigest(OtherDigest)],
     [name |-> "machine-os-content",
      from_name |-> ByDigest(get_machine_os_content_digest(RhcosBuild(arch)))],
     [name |-> "machine-os-content", from_name |-> ByDigest(OtherDigest)]}

\* the tag lists of a nightly: the names of the tags of an imagestream differ
Manifests(arch) ==
    {m \in UNION {[1..n -> ManifestTagChoices(arch)] : n \in 0..MaxManifestTags} :
        \A i, j \in DOMAIN m : i # j => m[i].name # m[j].name}

ArchCode(arch) == IF arch = "x86_64" THEN 120 ELSE 115

TagCode(tag) ==
    CASE tag = "pod" -> 112
      [] tag = "a" -> 97
      [] tag = "machine-os-content" -> 109
      [] OTHER -> 122

\* the issue strings of _check_nightly_consistency, by a letter, the arch and the tag
VersionIssue(n) == <<86, ArchCode(n.arch)>>

GatherIssue(n) == <<85, ArchCode(n.arch)>>

NoTagsIssue(n) == <<84, ArchCode(n.arch)>>

DigestIssue(n, tag) == <<68, ArchCode(n.arch), TagCode(tag)>>

\* HasDigest that takes every pull reference for one by digest
HasDigestAlways(pullspec) == TRUE

\* line 601: '@' in payload_tag_pullspec
HasDigest(pullspec) == "@" \in Range(pullspec)

\* CompareTag that takes the machine-os-content of the nightly as it is
CompareTagComponentsOnly(so_far, n, component_tag, entries) ==
    LET payload_tag_pullspec == component_tag.from_name
        pullspec_sha == AfterLastAt(payload_tag_pullspec)
        entry == DictGet(entries, component_tag.name)
    IN  IF IsRaised(so_far) THEN so_far
        ELSE IF ~HasDigest(payload_tag_pullspec)
        THEN Raised("IOError: Expected pullspec to be sha digest")
        ELSE IF entry = None
        THEN Raised("IOError: Did not find nightly payload tag in computed assembly payload")
        ELSE IF entry.archive_inspector # None
        THEN IF entry.archive_inspector.digest # pullspec_sha
             THEN Returned(Append(so_far.value, DigestIssue(n, component_tag.name)))
             ELSE so_far
        ELSE IF entry.rhcos_build # None
        THEN so_far
        ELSE Raised("IOError: Unsupported payload entry")

\* lines 599-618 for one tag: so_far is what the tags before it left
CompareTag(so_far, n, component_tag, entries) ==
    LET payload_tag_pullspec == component_tag.from_name
        pullspec_sha == AfterLastAt(payload_tag_pullspec)
        entry == DictGet(entries, component_tag.name)
    IN  IF IsRaised(so_far) THEN so_far
        ELSE IF ~HasDigest(payload_tag_pullspec)
        THEN Raised("IOError: Expected pullspec to be sha digest")
        ELSE IF entry = None
        THEN Raised("IOError: Did not find nightly payload tag in computed assembly payload")
        ELSE IF entry.archive_inspector # None
        THEN IF entry.archive_inspector.digest # pullspec_sha
             THEN Returned(Append(so_far.value, DigestIssue(n, component_tag.name)))
             ELSE so_far
        ELSE IF entry.rhcos_build # None
        THEN IF get_machine_os_content_digest(entry.rhcos_build) # pullspec_sha
             THEN Returned(Append(so_far.value, DigestIssue(n, component_tag.name)))
             ELSE so_far
        ELSE Raised("IOError: Unsupported payload entry")

RECURSIVE CompareTags(_, _, _, _)
\* the loop of line 598 over the first k tags
CompareTags(n, tags, k, entries) ==
    IF k = 0 THEN Returned(<<>>)
    ELSE CompareTag(CompareTags(n, tags, k - 1, entries), n, tags[k], entries)

\* AfterFetch that raises when no attempt has succeeded
AfterFetchRaises(g, n, rc, tags, rhcos) ==
    IF rc # 0 THEN Raised("IOError: Unable to gather nightly release info details")
    ELSE IF tags = <<>> THEN Returned(<<NoTagsIssue(n)>>)
    ELSE LET found == find_payload_entries(g, n.arch, "", rhcos)
         IN  IF IsRaised(found) THEN found
             ELSE CompareTags(n, tags, Len(tags), found.value)

\* lines 589-620: what _check_nightly_consistency does once the loop of the fetch is left
AfterFetch(g, n, rc, tags, rhcos) ==
    IF rc # 0 THEN Returned(<<GatherIssue(n)>>)
    ELSE IF tags = <<>> THEN Returned(<<NoTagsIssue(n)>>)
    ELSE LET found == find_payload_entries(g, n.arch, "", rhcos)
         IN  IF IsRaised(found) THEN found
             ELSE CompareTags(n, tags, Len(tags), found.value)

\* the tags were compared: the fetch succeeded, there are tags and the payload was computed
TagsCompared(g, n, rc, tags, rhcos) ==
    rc = 0 /\ tags # <<>> /\ IsReturned(find_payload_entries(g, n.arch, "", rhcos))

\* lines 628-632
BeginNightlies ==
    /\ pc = "nightlies"
    /\ nightly.stage = "idle"
    /\ \E reference_releases \in ReferenceReleaseChoices :
          nightly' = [nightly EXCEPT !.reference_releases = reference_releases,
                                     !.index = 1,
                                     !.stage = IF reference_releases = <<>> THEN "collected" ELSE "begin"]
    /\ UNCHANGED <<pc, run_outcome, options, arch_index, rhcos_resolved,
                   assembly_wide_inconsistencies, report, src_dest, image_streams, preflight,
                   mismatched_siblings, tag_mapping, payload_entries>>
    /\ RunFrame

\* the call for one nightly has ended with result; computed is what line 597 got
NightlyEnded(st, n, result, compared, computed) ==
    [st EXCEPT !.results = Append(@, [nightly  |-> n,
                                      fetches  |-> st.fetches,
                                      rc       |-> st.rc,
                                      manifest |-> st.manifest,
                                      compared |-> compared,
                                      payload_entries |-> computed,
                                      result   |-> result]),
               !.issues = IF IsReturned(result) THEN @ \o result.value ELSE @,
               !.index = @ + 1,
               !.stage = IF IsRaised(result) THEN "raised"
                         ELSE IF st.index = Len(st.reference_releases) THEN "collected"
                         ELSE "begin"]

\* lines 563-581
NightlyBegin ==
    /\ pc = "nightlies"
    /\ nightly.stage = "begin"
    /\ LET n == nightly.reference_releases[nightly.index]
           fresh == [nightly EXCEPT !.retries = Retries, !.rc = -1, !.fetches = <<>>,
                                    !.manifest = <<>>]
       IN  IF n.major_minor # MinorVersion
           THEN nightly' = NightlyEnded(fresh, n, Returned(<<VersionIssue(n)>>), FALSE, NotCalled)
           ELSE nightly' = [fresh EXCEPT !.stage = "fetch"]
    /\ UNCHANGED <<pc, run_outcome, options, arch_index, rhcos_resolved,
                   assembly_wide_inconsistencies, report, src_dest, image_streams, preflight,
                   mismatched_siblings, tag_mapping, payload_entries>>
    /\ RunFrame

\* FetchLoopContinues without the break of line 585
FetchLoopContinuesNoBreak(st) == st.retries > 0

\* lines 582-585: the loop goes on while retries are left and no attempt has succeeded
FetchLoopContinues(st) == st.retries > 0 /\ st.rc # 0

\* lines 582-587: one attempt of 'oc adm release info'; fetches are the exit codes of
\* the attempts of this call
NightlyFetch ==
    /\ pc = "nightlies"
    /\ nightly.stage = "fetch"
    /\ FetchLoopContinues(nightly)
    /\ LET n == nightly.reference_releases[nightly.index]
       IN  \/ \E manifest \in Manifests(n.arch) :
                 nightly' = [nightly EXCEPT !.rc = 0, !.manifest = manifest,
                                            !.fetches = Append(@, 0)]
           \/ nightly' = [nightly EXCEPT !.rc = 1, !.retries = @ - 1,
                                       !.fetches = Append(@, 1)]
    /\ UNCHANGED <<pc, run_outcome, options, arch_index, rhcos_resolved,
                   assembly_wide_inconsistencies, report, src_dest, image_streams, preflight,
                   mismatched_siblings, tag_mapping, payload_entries>>
    /\ RunFrame

\* lines 589-620: the loop of the fetch is left
NightlyCompare ==
    /\ pc = "nightlies"
    /\ nightly.stage = "fetch"
    /\ ~FetchLoopContinues(nightly)
    /\ LET n == nightly.reference_releases[nightly.index]
       IN  \E rhcos \in IF rhcos_resolved[n.arch] = NotCalled
                        THEN get_rhcos_build(n.arch)
                        ELSE {rhcos_resolved[n.arch].value} :
              LET result == AfterFetch(group_release_images, n, nightly.rc, nightly.manifest, rhcos)
                  compared == TagsCompared(group_release_images, n, nightly.rc, nightly.manifest, rhcos)
                  computed == IF nightly.rc = 0 /\ nightly.manifest # <<>>
                              THEN find_payload_entries(group_release_images, n.arch, "", rhcos)
                              ELSE NotCalled
              IN  /\ nightly' = NightlyEnded(nightly, n, result, compared, computed)
                  /\ rhcos_resolved' =
                         IF nightly.rc = 0 /\ nightly.manifest # <<>>
                            /\ ~(IsRaised(result) /\ result.error = "Unable to find pod image archive")
                         THEN [rhcos_resolved EXCEPT ![n.arch] = Returned(rhcos)]
                         ELSE rhcos_resolved
                  /\ IF IsRaised(result)
                     THEN run_outcome' = result /\ pc' = "aborted"
                     ELSE UNCHANGED <<run_outcome, pc>>
    /\ UNCHANGED <<options, arch_index, assembly_wide_inconsistencies, report, src_dest,
                   image_streams, preflight, mismatched_siblings, tag_mapping, payload_entries>>
    /\ RunFrame

\* PrintedReport for a report that holds a copy of the list made at line 147
PrintedReportCopy(rep, issues) == rep

\* report['assembly_issues'] at the time of print: the list the report holds is
\* assembly_wide_inconsistencies itself, so what was added to it later is in the report
PrintedReport(rep, issues) == [rep EXCEPT !.assembly_issues = issues]

\* lines 283-292
FinishRun ==
    /\ pc = "nightlies"
    /\ nightly.stage = "collected"
    /\ LET nightly_match_issues == nightly.issues
       IN  IF nightly_match_issues # <<>>
           THEN \E permit \in OptionValues :
                   /\ options' = [options EXCEPT !.permit_invalid_reference_releases = permit]
                   /\ IF permit = "yes"
                      THEN /\ assembly_wide_inconsistencies' =
                                  assembly_wide_inconsistencies \o nightly_match_issues
                           /\ run_outcome' = Returned(PrintedReport(report,
                                  assembly_wide_inconsistencies \o nightly_match_issues))
                           /\ pc' = "done"
                      ELSE /\ run_outcome' = Raised("IOError: Nightlies in reference-releases did not match constructed payload")
                           /\ pc' = "aborted"
                           /\ UNCHANGED assembly_wide_inconsistencies
           ELSE /\ run_outcome' = Returned(PrintedReport(report, assembly_wide_inconsistencies))
                /\ pc' = "done"
                /\ UNCHANGED <<options, assembly_wide_inconsistencies>>
    /\ UNCHANGED <<arch_index, rhcos_resolved, report, src_dest, image_streams, preflight,
                   nightly, mismatched_siblings, tag_mapping, payload_entries>>
    /\ RunFrame

NextRun ==
    \/ CheckSiblings
    \/ Preflight
    \/ ProcessArch
    \/ RhcosCrossCheck
    \/ BeginNightlies
    \/ NightlyBegin
    \/ NightlyFetch
    \/ NightlyCompare
    \/ FinishRun

SpecRun == InitRun /\ [][NextRun]_vars

----------------------------------------------------------------------------
(* The files of the loop over the architectures *)

\* the archives that get_group_payload_tag_mapping selected for brew_arch
SelectedArchives(g, brew_arch) ==
    Range(get_group_payload_tag_mapping(g, brew_arch)) \ {None}

\* '<source-pullspec>=<destination-pullspec>' of an archive
LineOfArchive(archive_inspector) ==
    <<"registry-proxy.engineering.redhat.com/rh-osbs/openshift", "@">>
        \o archive_inspector.digest
        \o <<"=", DestRepo, ":">>
        \o [k \in DOMAIN archive_inspector.digest |->
               IF archive_inspector.digest[k] = ":" THEN "-" ELSE archive_inspector.digest[k]]

\* C12: the file src_dest.<arch> of every processed architecture holds exactly one line
\* '<source>=<destination>' for every archive selected for the architecture, and no
\* other line: none for machine-os-content, none for a tag filled with the pod entry,
\* and no line twice.
C12_OneLinePerArchive ==
    \A a \in Arches :
        src_dest[a].written =>
            src_dest[a].content =
                [l \in {LineOfArchive(ar) : ar \in SelectedArchives(group_release_images, a)} |-> 1]

\* the build behind a payload entry is under embargo
EntryEmbargoed(e) ==
    /\ e.image_meta # None
    /\ group_release_images[e.image_meta.distgit_key].under_embargo

\* the tags of the imagestream file of arch a for a privacy mode
TagsOfFile(a, private_mode) == image_streams[<<a, private_mode>>].content.spec.tags

\* C13: no tag of a public imagestream file is backed by a build under embargo; the
\* private file of the architecture has one tag for every entry of the architecture,
\* and the public tags are the private tags without those of embargoed builds.
C13_PublicHidesEmbargoed ==
    \A a \in Arches :
        (image_streams[<<a, FALSE>>].written /\ IsReturned(payload_entries[a])) =>
            LET entries == payload_entries[a].value
            IN  /\ \A tag \in TagsOfFile(a, FALSE) :
                      tag.name \in DOMAIN entries /\ ~EntryEmbargoed(entries[tag.name])
                /\ image_streams[<<a, TRUE>>].written =>
                      /\ {tag.name : tag \in TagsOfFile(a, TRUE)} = DOMAIN entries
                      /\ Cardinality(TagsOfFile(a, TRUE)) = Cardinality(DOMAIN entries)
                      /\ TagsOfFile(a, FALSE) =
                             {tag \in TagsOfFile(a, TRUE) : ~EntryEmbargoed(entries[tag.name])}

\* both files of s390x are written and an embargoed build is behind a tag
C13_Witness ==
    /\ image_streams[<<"s390x", FALSE>>].written
    /\ image_streams[<<"s390x", TRUE>>].written
    /\ IsReturned(payload_entries["s390x"])
    /\ \E t \in DOMAIN payload_entries["s390x"].value :
          EntryEmbargoed(payload_entries["s390x"].value[t])
    /\ TagsOfFile("s390x", FALSE) # TagsOfFile("s390x", TRUE)

----------------------------------------------------------------------------
(* The sibling check and the nightly check against their flags *)

\* no mirroring list and no imagestream file is written
NoFileWritten ==
    /\ \A a \in Arches : ~src_dest[a].written
    /\ \A f \in Arches \X BOOLEAN : ~image_streams[f].written

\* an issue of the list names the builds of siblings: 'M' and their digits
NamesSiblings(issues, siblings) ==
    \E k \in DOMAIN issues :
        /\ Len(issues[k]) >= 1
        /\ issues[k][1] = 77
        /\ {issues[k][j] - 48 : j \in 2..Len(issues[k])} = {b.nvr : b \in Range(siblings)}

\* what the claim C14 says of the run once find_mismatched_siblings has returned the
\* non-empty list siblings
SiblingsHandled(siblings) ==
    \/ /\ options.permit_mismatched_siblings = "no"
       /\ pc = "aborted"
       /\ run_outcome = Raised("ValueError: mismatched siblings")
       /\ NoFileWritten
    \/ /\ options.permit_mismatched_siblings = "yes"
       /\ run_outcome # Raised("ValueError: mismatched siblings")
       /\ NamesSiblings(assembly_wide_inconsistencies, siblings)
       /\ preflight # NotCalled => NamesSiblings(report.assembly_issues, siblings)
       /\ IsReturned(run_outcome) => NamesSiblings(run_outcome.value.assembly_issues, siblings)

\* C14 as stated: for every assembly of type STREAM or STANDARD, mismatched siblings
\* without --permit-mismatched-siblings fail the run before any file is written, and
\* with the flag the run continues with an issue naming the siblings in the report.
C14_SiblingsFatalForStreamStandard ==
    ( /\ IsReturned(mismatched_siblings)
      /\ mismatched_siblings.value # <<>>
      /\ assembly.type \in {"STREAM", "STANDARD"} )
    => SiblingsHandled(mismatched_siblings.value)

\* C14, amended: the same for every assembly of type STREAM or STANDARD other than the
\* assembly named 'test', which line 133 exempts from the check.
C14_SiblingsFatalUnlessTest ==
    ( /\ IsReturned(mismatched_siblings)
      /\ mismatched_siblings.value # <<>>
      /\ assembly.type \in {"STREAM", "STANDARD"}
      /\ assembly.name # "test" )
    => SiblingsHandled(mismatched_siblings.value)

\* a STANDARD assembly with mismatched siblings and the flag has printed its report
C14_Witness ==
    /\ assembly.type = "STANDARD"
    /\ IsReturned(mismatched_siblings)
    /\ mismatched_siblings.value # <<>>
    /\ options.permit_mismatched_siblings = "yes"
    /\ pc = "done"
    /\ IsReturned(run_outcome)
    /\ NamesSiblings(run_outcome.value.assembly_issues, mismatched_siblings.value)

\* C15: when check_nightlies_consistency has returned at least one issue, the run
\* without --permit-invalid-reference-releases ends with an error and prints no report,
\* and the run with the flag completes with every returned issue in the list
\* assembly_issues of the printed report.
C15_NightlyIssuesFatalUnlessPermitted ==
    (nightly.stage = "collected" /\ nightly.issues # <<>> /\ pc # "nightlies") =>
        \/ /\ options.permit_invalid_reference_releases = "no"
           /\ pc = "aborted"
           /\ IsRaised(run_outcome)
        \/ /\ options.permit_invalid_reference_releases = "yes"
           /\ pc = "done"
           /\ IsReturned(run_outcome)
           /\ \A k \in DOMAIN nightly.issues :
                 \E j \in DOMAIN run_outcome.value.assembly_issues :
                     run_outcome.value.assembly_issues[j] = nightly.issues[k]

\* a run with the flag and a digest mismatch in its nightly has printed its report
C15_Witness ==
    /\ nightly.stage = "collected"
    /\ \E k \in DOMAIN nightly.issues : nightly.issues[k][1] = 68
    /\ options.permit_invalid_reference_releases = "yes"
    /\ pc = "done"
    /\ IsReturned(run_outcome)

----------------------------------------------------------------------------
(* The nightly check *)

\* the calls of _check_nightly_consistency that have ended
EndedNightlies == Range(nightly.results)

\* the digest of a pull reference '<repository>@<digest>'
DigestOfReference(pullspec) == SubSeq(pullspec, 3, Len(pullspec))

\* the digest the assembly computed for a payload entry
ComputedDigest(e) ==
    IF e.archive_inspector # None THEN e.archive_inspector.digest
    ELSE DigestOfReference(e.rhcos_build.pullspec)

\* the payload the ended call r computed for the arch of its nightly
PayloadOf(r) == r.payload_entries.value

\* the positions of the manifest of r whose tag has a digest, is in the payload, and
\* differs from it
MismatchingTags(r) ==
    {k \in DOMAIN r.manifest :
        /\ r.manifest[k].from_name[2] = "@"
        /\ r.manifest[k].name \in DOMAIN PayloadOf(r)
        /\ DigestOfReference(r.manifest[k].from_name)
               # ComputedDigest(PayloadOf(r)[r.manifest[k].name])}

\* the issues of the list that name the tag
IssuesNaming(issues, tag) ==
    {j \in DOMAIN issues : Len(issues[j]) = 3 /\ issues[j][1] = 68 /\ issues[j][3] = TagCode(tag)}

\* C16: when _check_nightly_consistency has fetched a manifest with tags and returns,
\* it returns exactly one issue for every tag of the manifest that carries a digest, is
\* in the payload computed for the arch and differs from the digest of its entry (of
\* the archive, or of machine-os-content for the RHCOS entry), none for a tag that
\* agrees, and as many issues as there are tags that differ.
C16_OneIssuePerMismatch ==
    \A r \in EndedNightlies :
        (r.rc = 0 /\ r.manifest # <<>> /\ IsReturned(r.result)) =>
            /\ r.compared
            /\ Len(r.result.value) = Cardinality(MismatchingTags(r))
            /\ \A k \in DOMAIN r.manifest :
                  Cardinality(IssuesNaming(r.result.value, r.manifest[k].name)) =
                      (IF k \in MismatchingTags(r) THEN 1 ELSE 0)

\* a nightly with two tags was compared: one tag agrees with the payload and the
\* machine-os-content differs
C16_Witness ==
    \E r \in EndedNightlies :
        /\ r.rc = 0 /\ IsReturned(r.result) /\ r.compared
        /\ Len(r.manifest) = 2
        /\ Len(r.result.value) = 1
        /\ IssuesNaming(r.result.value, "machine-os-content") # {}

\* some tag of the manifest has a pull reference without '@'
HasMalformedTag(manifest) ==
    \E k \in DOMAIN manifest : \A j \in DOMAIN manifest[k].from_name : manifest[k].from_name[j] # "@"

\* C17: a call of the nightly check that has fetched a manifest with a tag whose pull
\* reference has no '@' raises and returns no issue; the run has aborted with the error
\* and --permit-invalid-reference-releases was never consulted, so the run aborts with
\* and without the flag.
C17_MalformedReferenceIsFatal ==
    \A r \in EndedNightlies :
        (r.rc = 0 /\ HasMalformedTag(r.manifest)) =>
            /\ IsRaised(r.result)
            /\ pc = "aborted"
            /\ run_outcome = r.result
            /\ options.permit_invalid_reference_releases = Unread
            /\ nightly.stage = "raised"

\* the check has met a tag without '@' and the run has aborted on it
C17_Witness ==
    \E r \in EndedNightlies :
        /\ r.rc = 0
        /\ HasMalformedTag(r.manifest)
        /\ r.result = Raised("IOError: Expected pullspec to be sha digest")
        /\ pc = "aborted"
        /\ run_outcome = r.result

\* what C18 says of the exit codes of the attempts of one call: one to three
\* attempts, none after one that succeeded
FetchedWithinBudget(fetches) ==
    /\ Len(fetches) >= 1
    /\ Len(fetches) <= 3
    /\ \A k \in DOMAIN fetches : fetches[k] = 0 => k = Len(fetches)

\* the tags were only compared after an attempt that succeeded
ComparedAfterSuccess(r) ==
    r.compared => (r.fetches # <<>> /\ r.fetches[Len(r.fetches)] = 0)

\* C18 as stated: for every nightly, the fetch is attempted at least once and at most
\* three times, no attempt follows one that succeeded, and the tags are compared only
\* after an attempt that succeeded.
C18_FetchedOneToThreeTimes ==
    \A r \in EndedNightlies : FetchedWithinBudget(r.fetches) /\ ComparedAfterSuccess(r)

\* C18, amended: the same for every nightly whose major.minor is that of the group; for
\* any other nightly the call ends before the first attempt, without fetch and without
\* comparison. While a call is under way it has made at most three attempts, none
\* after one that succeeded.
C18_FetchedOneToThreeTimesIfSameVersion ==
    /\ \A r \in EndedNightlies :
          IF r.nightly.major_minor = MinorVersion
          THEN FetchedWithinBudget(r.fetches) /\ ComparedAfterSuccess(r)
          ELSE r.fetches = <<>> /\ ~r.compared
    /\ nightly.stage = "fetch" =>
          /\ Len(nightly.fetches) <= 3
          /\ \A k \in DOMAIN nightly.fetches :
                nightly.fetches[k] = 0 => k = Len(nightly.fetches)

\* the third attempt succeeded after two that failed, and the tags were compared
C18_Witness ==
    \E r \in EndedNightlies :
        /\ r.nightly.major_minor = MinorVersion
        /\ r.fetches = <<1, 1, 0>>
        /\ r.compared

\* every attempt of the call failed and none is left
AllAttemptsFailed(r) ==
    Len(r.fetches) = 3 /\ \A k \in DOMAIN r.fetches : r.fetches[k] # 0

\* C19 as stated: when all attempts of the fetch fail the run terminates
\* non-successfully, also with --permit-invalid-reference-releases: the run never
\* completes.
C19_ExhaustedFetchIsFatal ==
    \A r \in EndedNightlies : AllAttemptsFailed(r) => pc # "done"

\* C19, amended: when all attempts of the fetch fail, the call returns one issue
\* 'Unable to gather nightly release info' without comparing any tag; without
\* --permit-invalid-reference-releases the run ends with the error of the nightly
\* check, and with the flag the run completes with that issue in the printed report.
C19_ExhaustedFetchIsSoftIssue ==
    \A r \in EndedNightlies :
        AllAttemptsFailed(r) =>
            /\ IsReturned(r.result)
            /\ ~r.compared
            /\ r.result.value = <<<<85, IF r.nightly.arch = "x86_64" THEN 120 ELSE 115>>>>
            /\ options.permit_invalid_reference_releases = "no" =>
                  /\ pc = "aborted"
                  /\ run_outcome = Raised("IOError: Nightlies in reference-releases did not match constructed payload")
            /\ options.permit_invalid_reference_releases = "yes" =>
                  /\ pc = "done"
                  /\ IsReturned(run_outcome)
                  /\ \E j \in DOMAIN run_outcome.value.assembly_issues :
                        run_outcome.value.assembly_issues[j] = r.result.value[1]

\* three attempts failed and the run with the flag has completed
C19_Witness ==
    /\ \E r \in EndedNightlies : AllAttemptsFailed(r)
    /\ options.permit_invalid_reference_releases = "yes"
    /\ pc = "done"
    /\ IsReturned(run_outcome)

----------------------------------------------------------------------------
(* Fatal conditions and the files of the architecture *)

\* a fatal structural condition was detected for arch a: in the loop over the
\* architectures, or in the nightly of a
FatalConditionFor(a) ==
    \/ /\ IsRaised(payload_entries[a])
       /\ payload_entries[a].error \in {"Unable to find pod image archive", "No RHCOS build"}
    \/ /\ IsRaised(run_outcome)
       /\ run_outcome.error = "IOError: Unsupported PayloadEntry"
       /\ arch_index \in DOMAIN runtime_arches
       /\ runtime_arches[arch_index] = a
    \/ \E r \in EndedNightlies :
          /\ r.nightly.arch = a
          /\ IsRaised(r.result)
          /\ r.result.error \in {"IOError: Expected pullspec to be sha digest",
                                 "Unable to find pod image archive", "No RHCOS build"}

\* C20: whenever a fatal structural condition is detected for an architecture (no pod
\* archive, no RHCOS build, an unsupported entry, a malformed digest in its reference
\* nightly), the run has aborted and neither src_dest.<arch> nor an imagestream file of
\* the architecture has been written.
C20_NoFileOfFatalArch ==
    \A a \in Arches :
        FatalConditionFor(a) =>
            /\ pc = "aborted"
            /\ ~src_dest[a].written
            /\ \A private_mode \in BOOLEAN : ~image_streams[<<a, private_mode>>].written

----------------------------------------------------------------------------
(* The RHCOS builds of the run against each other *)

\* the RHCOS builds whose machine-os-content entry went to the files of an architecture
EmittedRhcosBuilds ==
    {payload_entries[a].value["machine-os-content"].rhcos_build :
        a \in {b \in Arches : src_dest[b].written /\ IsReturned(payload_entries[b])}}

\* the packages of the RHCOS build of an architecture: 'foo' at another version on s390x
RpmsOfRhcos(rhcos_build) ==
    {[name |-> <<"foo">>, version |-> IF rhcos_build.arch = "s390x" THEN "1.1" ELSE "1.0",
      release |-> "1"]}

\* two of the builds have a package of one name at different versions
RhcosBuildsDiverge(builds) ==
    \E b1, b2 \in builds : \E p1 \in RpmsOfRhcos(b1), p2 \in RpmsOfRhcos(b2) :
        p1.name = p2.name /\ p1 # p2

\* C21: once the check after the loop over the architectures has run, every RHCOS build
\* whose machine-os-content entry was emitted is among the builds handed to
\* find_rhcos_build_rpm_inconsistencies in every privacy mode, and when two of them
\* have a package at different NVRs the run has ended with 'Found RHCOS
\* inconsistencies'.
C21_EmittedRhcosBuildsAreChecked ==
    rhcos_inconsistencies # NotCalled =>
        /\ \A private_mode \in DOMAIN rhcos_builds :
              EmittedRhcosBuilds \subseteq Range(rhcos_builds[private_mode])
        /\ RhcosBuildsDiverge(EmittedRhcosBuilds) =>
              run_outcome = Raised("IOError: Found RHCOS inconsistencies in builds")

----------------------------------------------------------------------------
(* The checks before the loop over the architectures *)

\* a check of lines 176-204 has reported an issue for a build of the assembly
PreflightFoundIssues ==
    /\ preflight # NotCalled
    /\ preflight.image_findings # {} \/ preflight.rpm_findings # <<>>

\* C22: when a check before the loop reports an issue for a selected build, the run
\* exits with status 1 and no mirroring list and no imagestream file is written.
C22_PreflightIssuesStopTheRun ==
    PreflightFoundIssues =>
        /\ pc = "aborted"
        /\ run_outcome = Exited(1)
        /\ NoFileWritten

----------------------------------------------------------------------------
(* Components without a build *)

\* the payload components, other than pod, for which the assembly selected no build
MissingBuilds ==
    {i \in DOMAIN group_release_images :
        /\ ~group_release_images[i].has_build
        /\ group_release_images[i].is_payload
        /\ group_release_images[i].tag_name # "pod"}

\* the architectures whose entries the loop has computed
ProcessedArches == {a \in Arches : IsReturned(payload_entries[a])}

\* the report of the run lists component i as missing
ListedAsMissing(i) ==
    /\ preflight # NotCalled => i \in report.missing_image_builds
    /\ IsReturned(run_outcome) => i \in run_outcome.value.missing_image_builds

----------------------------------------------------------------------------
(* The issues of the report and the annotation of the imagestreams *)

\* the issues that the metadata annotation of an imagestream descriptor lists
AnnotatedIssues(descriptor) ==
    LET ann == descriptor.metadata.annotations
    IN  IF InconsistencyKey \in DOMAIN ann THEN Range(json_loads(ann[InconsistencyKey])) ELSE {}

\* C24: when the run has completed, every assembly-wide issue of the printed report is
\* among the issues in the metadata annotation of every imagestream file the run wrote.
C24_ReportedIssuesAreAnnotated ==
    (pc = "done" /\ IsReturned(run_outcome)) =>
        \A f \in Arches \X BOOLEAN :
            image_streams[f].written =>
                Range(run_outcome.value.assembly_issues)
                    \subseteq AnnotatedIssues(image_streams[f].content)

----------------------------------------------------------------------------
(* The order of the components *)

\* the orders in which the components of g can be iterated
Orders(g) ==
    {p \in [DOMAIN g -> DOMAIN g] : \A i, j \in DOMAIN g : i # j => p[i] # p[j]}

\* the components of g in the order p
Reordered(g, p) == [i \in DOMAIN g |-> g[p[i]]]

\* no tag name is claimed implicitly by two components of g
NoTwoImplicitClaimants(g) ==
    \A i, j \in DOMAIN g :
        (i # j /\ g[i].tag_name = g[j].tag_name) => (g[i].explicit \/ g[j].explicit)

\* C25: for a group in which no tag name is claimed implicitly by two components, the
\* map get_group_payload_tag_mapping returned for an arch is the map it returns for
\* every other order of the components.
C25_MappingIgnoresOrder ==
    \A a \in Arches :
        (IsReturned(tag_mapping[a]) /\ NoTwoImplicitClaimants(group_release_images)) =>
            \A p \in Orders(group_release_images) :
                get_group_payload_tag_mapping(Reordered(group_release_images, p), a)
                    = tag_mapping[a].value

----------------------------------------------------------------------------
(* A nightly check without issues *)

\* the tag names of a manifest
ManifestNames(manifest) == {manifest[k].name : k \in DOMAIN manifest}

\* C26: when check_nightlies_consistency has returned no issue for the reference
\* nightlies of the assembly, the payload computed for the arch of each nightly has
\* the tag names of the nightly and, for every tag, the digest of the nightly.
C26_NoIssueMeansExactMatch ==
    (nightly.stage = "collected" /\ nightly.issues = <<>>) =>
        \A r \in EndedNightlies :
            /\ IsReturned(r.payload_entries)
            /\ ManifestNames(r.manifest) = DOMAIN PayloadOf(r)
            /\ \A k \in DOMAIN r.manifest :
                  r.manifest[k].name \in DOMAIN PayloadOf(r) =>
                      DigestOfReference(r.manifest[k].from_name)
                          = ComputedDigest(PayloadOf(r)[r.manifest[k].name])

----------------------------------------------------------------------------
(* The imagestream files of an architecture *)

\* the architectures whose iteration of the loop of lines 215-270 has reached its files
WrittenArches == {a \in Arches : src_dest[a].written}

\* C27: for every processed architecture the public imagestream file is written, the
\* private file is written exactly when the assembly is of type STREAM, and the name
\* and the namespace of the private imagestream are those of the public one followed
\* by '-priv'.
C27_PrivateFileIffStream ==
    \A a \in WrittenArches :
        /\ image_streams[<<a, FALSE>>].written
        /\ image_streams[<<a, TRUE>>].written <=> assembly.type = "STREAM"
        /\ image_streams[<<a, TRUE>>].written =>
              /\ image_streams[<<a, TRUE>>].content.metadata.name
                     = image_streams[<<a, FALSE>>].content.metadata.name \o "-priv"
              /\ image_streams[<<a, TRUE>>].content.metadata.namespace
                     = image_streams[<<a, FALSE>>].content.metadata.namespace \o "-priv"

\* both files of s390x are written for an assembly of type STREAM
C27_Witness ==
    /\ assembly.type = "STREAM"
    /\ "s390x" \in WrittenArches
    /\ image_streams[<<"s390x", FALSE>>].written
    /\ image_streams[<<"s390x", TRUE>>].written
    /\ image_streams[<<"s390x", TRUE>>].content.metadata.namespace = "ocp-s390x-priv"

----------------------------------------------------------------------------
(* Repetitions in the list of mismatched siblings *)

\* C28: the list find_mismatched_siblings returns holds no build more than once
C28_NoSiblingTwice ==
    IsReturned(mismatched_siblings)
        => \A i, j \in DOMAIN mismatched_siblings.value :
              mismatched_siblings.value[i] = mismatched_siblings.value[j] => i = j

----------------------------------------------------------------------------
(* Two implicit claimants of one tag name *)

\* components i and j are the only claimants of their tag name, both implicit, and both
\* are meant for arch and have an archive for it
TwoImplicitClaimants(g, i, j, arch) ==
    /\ i < j
    /\ ClaimsTag(g[i]) /\ ClaimsTag(g[j])
    /\ g[i].tag_name = g[j].tag_name
    /\ ~g[i].explicit /\ ~g[j].explicit
    /\ arch \in g[i].arches \cap g[i].archive_arches
    /\ arch \in g[j].arches \cap g[j].archive_arches
    /\ \A k \in DOMAIN g \ {i, j} : ClaimsTag(g[k]) => g[k].tag_name # g[i].tag_name

\* C29: when two components claim one tag name, both implicitly, and both have an
\* archive for the arch, the mapping of get_group_payload_tag_mapping holds for the tag
\* the archive of the component iterated first
C29_FirstImplicitClaimantKept ==
    \A arch \in Arches :
        IsReturned(tag_mapping[arch]) =>
            \A i, j \in DOMAIN group_release_images :
                TwoImplicitClaimants(group_release_images, i, j, arch) =>
                    DictGet(tag_mapping[arch].value, group_release_images[i].tag_name)
                        = ArchiveInspector(group_release_images[i], brew_arch_for_go_arch(arch))

\* the mapping of s390x was computed for a group with two implicit claimants of 'a'
C29_Witness ==
    /\ IsReturned(tag_mapping["s390x"])
    /\ \E i, j \in DOMAIN group_release_images :
          /\ TwoImplicitClaimants(group_release_images, i, j, "s390x")
          /\ group_release_images[i].tag_name = "a"

----------------------------------------------------------------------------
(* The machine-os-content entry *)

\* C30: every map find_payload_entries returns has the tag 'machine-os-content', its
\* entry is RHCOS-backed with the pull reference of the RHCOS build of the arch as
\* destination, also when a component of the group claims that tag name, and the entry
\* of every other tag is component-backed.
C30_MachineOsContentIsRhcos ==
    \A arch \in Arches :
        IsReturned(payload_entries[arch]) =>
            LET final_members == payload_entries[arch].value
            IN  /\ "machine-os-content" \in DOMAIN final_members
                /\ RhcosBacked(final_members["machine-os-content"])
                /\ final_members["machine-os-content"].rhcos_build = RhcosBuild(arch)
                /\ final_members["machine-os-content"].dest_pullspec = RhcosBuild(arch).pullspec
                /\ \A t \in DOMAIN final_members \ {"machine-os-content"} :
                      ComponentBacked(final_members[t])

\* a map was returned for a group with a component whose archive for the arch is mapped
\* to 'machine-os-content'
C30_Witness ==
    \E arch \in Arches :
        /\ IsReturned(payload_entries[arch])
        /\ IsReturned(tag_mapping[arch])
        /\ DictGet(tag_mapping[arch].value, "machine-os-content") # None

====
